---- MODULE Spec2Model ----
(***************************************************************************)
(* Touch / responder dispatch core of SC.RootResponder                     *)
(* (frameworks/foundation/system/renderer.js, first revision of the root   *)
(* responder, lines 194-1160): the view-touch index, makeTouchResponder,   *)
(* captureTouch and the touchstart / touchend / touchcancel handlers;      *)
(* its key pane stack (makeKeyPane); the touch gestures and the line       *)
(* scrolling of SC.ScrollView (frameworks/desktop/views/scroll.js); and    *)
(* the touch fan-out of the second revision of the root responder          *)
(* (renderer.js, lines 1211-2103).                                         *)
(***************************************************************************)
EXTENDS Integers, Sequences, FiniteSets, TLC

(***************************************************************************)
(* Bounds of the model.                                                    *)
(***************************************************************************)
MaxTouches == 2

MaxSlots == 4

MaxCount == 2

(***************************************************************************)
(* Values.  JavaScript's undefined and null are kept apart because the     *)
(* code compares with ===.                                                 *)
(***************************************************************************)
Undefined == "undefined"

Null == "null"

\* the root responder itself, the default startingPoint of captureTouch
RootResponder == "rootResponder"

\* the view tree: Leaf inside Mid inside Root
Views == {"Root", "Mid", "Leaf"}

TouchIds == 1 .. MaxTouches

\* the views a raw touch can land on
Targets == {"Leaf"}

\* view.get('nextResponder')
nextResponder(view) ==
  CASE view = "Leaf" -> "Mid"
    [] view = "Mid" -> "Root"
    [] OTHER -> Null

\* JavaScript truthiness of a view reference
Truthy(x) == x /= Undefined /\ x /= Null

\* stack[idx] with JavaScript's 0-based index; out of range is undefined
At(stack, idx) == IF idx >= 0 /\ idx < Len(stack) THEN stack[idx + 1] ELSE Undefined

RECURSIVE indexOfFrom(_, _, _)
indexOfFrom(stack, x, i) ==
  IF i > Len(stack) THEN -1
  ELSE IF stack[i] = x THEN i - 1
  ELSE indexOfFrom(stack, x, i + 1)

\* Array.prototype.indexOf
indexOf(stack, x) == indexOfFrom(stack, x, 1)

\* stack.pop()
Pop(stack) == IF Len(stack) = 0 THEN stack ELSE SubSeq(stack, 1, Len(stack) - 1)

(***************************************************************************)
(* SC.Touch                                                                *)
(***************************************************************************)
\* new SC.Touch(touch, touchContext)
NewTouch(targetView) ==
  [ targetView |-> targetView,
    view |-> Undefined,
    touchResponder |-> Undefined,
    nextTouchResponder |-> Undefined,
    touchResponders |-> << >> ]

\* a touch entry after touchend cleared it
EndedTouch ==
  [ targetView |-> Null,
    view |-> Undefined,
    touchResponder |-> Null,
    nextTouchResponder |-> Null,
    touchResponders |-> << >> ]

(***************************************************************************)
(* State of the root responder and of the views it talks to.               *)
(*   touch            the SC.Touch entries, by identifier                  *)
(*   touches          _touches: the identifiers in the registry            *)
(*   touchedViews     _touchedViews: view -> [touches, touchCount]         *)
(*   hasTouch         the hasTouch property of every view                  *)
(***************************************************************************)
VARIABLES touch, touches, touchedViews, hasTouch

rootVars == << touch, touches, touchedViews, hasTouch >>

(***************************************************************************)
(* State of a scroll view and of what it talks to.                         *)
(*   scrollView       the fields of the SC.ScrollView touched by gestures  *)
(*                    and by scrollTo                                      *)
(*   timeouts         the browser's pending setTimeout / invokeLater calls *)
(*                    of the view                                          *)
(*   fingers          the touches the root responder has assigned to the   *)
(*                    view, in the order of its touch set                  *)
(***************************************************************************)
VARIABLES scrollView, timeouts, fingers

scrollVars == << scrollView, timeouts, fingers >>

(***************************************************************************)
(* Key pane state of the root responder.                                   *)
(*   keyPanes         keyPane, previousKeyPanes and mainPane               *)
(*   paneFlags        acceptsKeyPane and isPaneAttached of every pane      *)
(***************************************************************************)
VARIABLES keyPanes, paneFlags

paneVars == << keyPanes, paneFlags >>

(***************************************************************************)
(* State of the second revision of the root responder: _touches,           *)
(* _touchedViews, hasTouch and _touch_move_generation.                     *)
(***************************************************************************)
VARIABLES fanOut

fanVars == << fanOut >>

vars == << touch, touches, touchedViews, hasTouch, scrollView, timeouts, fingers,
           keyPanes, paneFlags, fanOut >>

\* a part of the program that a specification does not drive stays as
\* constructed
Unused == "unused"

ScrollUnused == scrollView = Unused /\ timeouts = Unused /\ fingers = Unused

PanesUnused == keyPanes = Unused /\ paneFlags = Unused

FanOutUnused == fanOut = Unused

RootUnused ==
  touch = Unused /\ touches = Unused /\ touchedViews = Unused /\ hasTouch = Unused

\* view.get("acceptsMultitouch"): Mid tracks several touches at once
acceptsMultitouch(view) == view = "Mid"

\* the page positions of the model: the origin and three points at whole
\* distances from it and from each other
Points == { << 0, 0 >>, << 6, 0 >>, << 0, 8 >>, << 6, 8 >> }

Origin == << 0, 0 >>

\* the raw DOM event being handled: its time stamp and the page position it
\* reports for each changed touch
RawEvent(page) == [ timeStamp |-> 1, page |-> page ]

\* the fields of the touch entries that the dispatcher copies from the raw
\* events and never reads for a decision: pageX / pageY, timeStamp, event
Unmoved ==
  [ page |-> [ t \in TouchIds |-> Origin ],
    timeStamp |-> [ t \in TouchIds |-> 0 ],
    event |-> [ t \in TouchIds |-> Undefined ] ]

\* the callbacks a view implements for the dispatcher
Callbacks == {"captureTouch", "touchStart", "touchesDragged", "touchEnd", "touchCancelled"}

\* the views answer every callback and return
Behaved ==
  [ throws |-> {}, taps |-> {}, captures |-> {}, accepts |-> {} ]

\* the state the operators below transform.  Beside the four variables it
\* carries what one operation needs and leaves behind:
\*   log     in order, the view callbacks (tryToPerform) and the stack.pop()
\*           calls the operation makes
\*   book    in order, the bookkeeping steps of the operation, each with the
\*           number of callbacks made before it
\*   depth   SC.RunLoop.begin() calls minus SC.RunLoop.end() calls so far
\*   thrown  an exception is propagating
\*   data    the copied fields of the touch entries (see Unmoved)
\*   evt     the raw event being handled
\*   views   how the views behave during the operation: throws is the set of
\*           << callback, view >> pairs that throw, taps the views whose
\*           touchEnd re-captures the touch (the scroll view's tap path),
\*           captures / accepts their answers during that re-capture
State ==
  [ touch |-> touch,
    touches |-> touches,
    touchedViews |-> touchedViews,
    hasTouch |-> hasTouch,
    log |-> << >>,
    book |-> << >>,
    depth |-> 0,
    thrown |-> FALSE,
    data |-> Unmoved,
    evt |-> RawEvent([ t \in TouchIds |-> Origin ]),
    views |-> Behaved ]

\* one view callback (tryToPerform) or one stack.pop() of the handler
Call(action, view, t) == [ action |-> action, view |-> view, touch |-> t ]

\* the callback is made; it throws when the view is set to throw in it
Logged(s, action, view, t) ==
  [ s EXCEPT !.log = Append(@, Call(action, view, t)),
             !.thrown = @ \/ << action, view >> \in s.views.throws ]

\* the callbacks made so far
CallbackCount(s) == Len(SelectSeq(s.log, LAMBDA c : c.action \in Callbacks))

\* one bookkeeping step of a handler
Noted(s, what, view, t) ==
  [ s EXCEPT !.book = Append(@, [ what |-> what, view |-> view, touch |-> t,
                                  calls |-> CallbackCount(s) ]) ]

\* SC.RunLoop.begin() / SC.RunLoop.end()
RunLoopBegin(s) == [ s EXCEPT !.depth = @ + 1 ]

RunLoopEnd(s) == [ s EXCEPT !.depth = @ - 1 ]

(***************************************************************************)
(* View-touch index                                                        *)
(***************************************************************************)
\* touchesForView(view): the live set, or undefined (here: no entry)
HasEntry(s, view) == view \in DOMAIN s.touchedViews

touchesForView(s, view) == IF HasEntry(s, view) THEN s.touchedViews[view].touches ELSE {}

assignTouch(s, t, view) ==
  LET created == ~HasEntry(s, view)
      entry == IF created THEN [ touches |-> {}, touchCount |-> 0 ]
               ELSE s.touchedViews[view]
      entry2 == [ touches |-> entry.touches \cup {t},
                  touchCount |-> entry.touchCount + 1 ]
      s1 == IF created THEN Noted(s, "hasTouch:YES", view, t) ELSE s
  IN [ s1 EXCEPT
         !.touchedViews = [ x \in DOMAIN s.touchedViews \cup {view} |->
                              IF x = view THEN entry2 ELSE s.touchedViews[x] ],
         !.hasTouch = IF created THEN [ @ EXCEPT ![view] = TRUE ] ELSE @,
         !.touch = [ @ EXCEPT ![t].view = view ] ]

\* unassignTouch without the view.set("hasTouch", NO) of the removal
unassignTouch_keepsFlag(s, t) ==
  LET view == s.touch[t].view IN
  IF ~Truthy(view) THEN s
  ELSE
    LET viewEntry == s.touchedViews[view]
        entry2 == [ touches |-> viewEntry.touches \ {t},
                    touchCount |-> viewEntry.touchCount - 1 ]
        removed == entry2.touchCount < 1
    IN [ s EXCEPT
           !.touchedViews =
              IF removed
              THEN [ x \in DOMAIN s.touchedViews \ {view} |-> s.touchedViews[x] ]
              ELSE [ s.touchedViews EXCEPT ![view] = entry2 ],
           !.touch = [ @ EXCEPT ![t].view = Undefined ] ]

unassignTouch(s, t) ==
  LET view == s.touch[t].view IN
  IF ~Truthy(view) THEN s
  ELSE
    LET viewEntry == s.touchedViews[view]
        entry2 == [ touches |-> viewEntry.touches \ {t},
                    touchCount |-> viewEntry.touchCount - 1 ]
        removed == entry2.touchCount < 1
        s1 == IF removed THEN Noted(s, "hasTouch:NO", view, t) ELSE s
    IN [ s1 EXCEPT
           !.touchedViews =
              IF removed
              THEN [ x \in DOMAIN s.touchedViews \ {view} |-> s.touchedViews[x] ]
              ELSE [ s.touchedViews EXCEPT ![view] = entry2 ],
           !.hasTouch = IF removed THEN [ @ EXCEPT ![view] = FALSE ] ELSE @,
           !.touch = [ @ EXCEPT ![t].view = Undefined ] ]

\* JavaScript numbers as far as averagedTouchesForView needs them: a
\* quotient of two whole numbers, NaN, and the undefined of a variable that
\* was declared without a value
Number(num, den) == [ num |-> num, den |-> den ]

NotANumber == [ nan |-> TRUE ]

Uninitialised == [ undefined |-> TRUE ]

IsNumber(v) == DOMAIN v = {"num", "den"}

\* a + b and a / len; undefined and NaN operands give NaN
Plus(a, b) ==
  IF IsNumber(a) /\ IsNumber(b)
  THEN Number(a.num * b.den + b.num * a.den, a.den * b.den)
  ELSE NotANumber

DividedBy(a, len) == IF IsNumber(a) THEN Number(a.num, a.den * len) ELSE NotANumber

\* Math.pow(n, 0.5) of a whole number; the Points are at whole distances
Root2(n) == CHOOSE r \in 0 .. n : r * r <= n /\ n < (r + 1) * (r + 1)

\* the first loop: the sum of pageX (coordinate 1) or pageY (coordinate 2)
RECURSIVE sumOfPage(_, _, _)
sumOfPage(s, t, coordinate) ==
  IF t = {} THEN 0
  ELSE LET touch1 == CHOOSE x \in t : TRUE
       IN s.data.page[touch1][coordinate] + sumOfPage(s, t \ {touch1}, coordinate)

\* Math.pow(dx * dx + dy * dy, 0.5) for a touch, ax and ay being sums over len
distanceFrom(s, touch1, sumX, sumY, len) ==
  Number(Root2((s.data.page[touch1][1] * len - sumX) * (s.data.page[touch1][1] * len - sumX)
               + (s.data.page[touch1][2] * len - sumY) * (s.data.page[touch1][2] * len - sumY)),
         len)

\* the second loop: ad += distance, for the touches of t
RECURSIVE sumOfDistances(_, _, _, _, _, _)
sumOfDistances(s, t, ad, sumX, sumY, len) ==
  IF t = {} THEN ad
  ELSE LET touch1 == CHOOSE x \in t : TRUE
       IN sumOfDistances(s, t \ {touch1},
                         Plus(ad, distanceFrom(s, touch1, sumX, sumY, len)),
                         sumX, sumY, len)

\* averagedTouchesForView once the view is known to have the touches t; ad is
\* declared without a value ("ax = 0, ay = 0, dx, dy, ad")
averagedTouches(s, t, len) ==
  [ x |-> Number(sumOfPage(s, t, 1), len),
    y |-> Number(sumOfPage(s, t, 2), len),
    d |-> DividedBy(sumOfDistances(s, t, Uninitialised,
                                   sumOfPage(s, t, 1), sumOfPage(s, t, 2), len), len),
    touchCount |-> len ]

averagedTouchesForView(s, view) ==
  IF ~HasEntry(s, view) \/ touchesForView(s, view) = {}
  THEN [ x |-> Number(0, 1), y |-> Number(0, 1), d |-> Number(0, 1), touchCount |-> 0 ]
  ELSE averagedTouches(s, touchesForView(s, view), Cardinality(touchesForView(s, view)))

(***************************************************************************)
(* Capture / dispatch engine                                               *)
(*                                                                         *)
(* The answers of the views to the captureTouch and touchStart queries are *)
(* inputs of an operation: `captures' and `accepts' are the sets of views  *)
(* that answer YES during it.                                              *)
(***************************************************************************)
\* pane.sendEvent("touchStart", touch, target): walks up the responder chain
\* from the target offering touchStart; a view that is already the touch's
\* responder is returned without being called again.
RECURSIVE paneSendEvent(_, _, _, _)
paneSendEvent(s, t, target, accepts) ==
  IF ~Truthy(target) THEN [ s |-> s, ret |-> Null ]
  ELSE IF s.touch[t].touchResponder = target THEN [ s |-> s, ret |-> target ]
  ELSE
    LET s1 == Logged(s, "touchStart", target, t) IN
    IF s1.thrown THEN [ s |-> s1, ret |-> Null ]
    ELSE IF target \in accepts THEN [ s |-> s1, ret |-> target ]
    ELSE paneSendEvent(s1, t, nextResponder(target), accepts)

\* the end of the root responder's sendEvent: SC.RunLoop.end() and return,
\* not reached when a view threw
sendEventEnd(sent) ==
  IF sent.s.thrown THEN sent
  ELSE [ s |-> RunLoopEnd(sent.s), ret |-> sent.ret ]

\* sendEvent("touchStart", touch, target) of the root responder: the pane's
\* sendEvent between SC.RunLoop.begin() and SC.RunLoop.end()
sendEvent(s, t, target, accepts) ==
  sendEventEnd(paneSendEvent(RunLoopBegin(s), t, target, accepts))

\* popResponders with a plausible slip: the guard of the touchCancelled call
\* looks only at the index and forgets acceptsMultitouch
RECURSIVE popResponders_indexOnly(_, _, _, _, _)
popResponders_indexOnly(s, t, responder, idx, last) ==
  IF ~(Truthy(last) /\ last /= responder) THEN s
  ELSE
    LET s1 == IF ~(last \in DOMAIN s.touchedViews)
              THEN [ s EXCEPT !.log = Append(@, [ action |-> "touchCancelled",
                                                  view |-> last, touch |-> t ]) ]
              ELSE s
        idx2 == idx - 1
        stack == s1.touch[t].touchResponders
        last2 == IF idx2 >= 0 /\ idx2 < Len(stack) THEN stack[idx2 + 1] ELSE Undefined
        stack2 == SubSeq(stack, 1, Len(stack) - 1)
        s2 == [ s1 EXCEPT
                  !.log = Append(@, [ action |-> "pop", view |-> last, touch |-> t ]),
                  !.touch[t].touchResponders = stack2,
                  !.touch[t].touchResponder = At(stack2, idx2),
                  !.touch[t].nextTouchResponder = At(stack2, idx2 - 1) ]
    IN popResponders_indexOnly(s2, t, responder, idx2, last2)

\* the touchCancelled call of the pop loop: "or, don't, if the view doesn't
\* accept multitouch and it is not the last touch"
cancelPopped(s, t, last) ==
  IF acceptsMultitouch(last) \/ ~HasEntry(s, last)
  THEN Logged(s, "touchCancelled", last, t)
  ELSE s

\* idx--; stack.pop(); the two pointers follow the stack
popOne(s, t, last, idx2) ==
  [ Logged(s, "pop", last, t) EXCEPT
      !.touch[t].touchResponders = Pop(s.touch[t].touchResponders),
      !.touch[t].touchResponder = At(Pop(s.touch[t].touchResponders), idx2),
      !.touch[t].nextTouchResponder = At(Pop(s.touch[t].touchResponders), idx2 - 1) ]

popUnlessThrown(s, t, last, idx2) == IF s.thrown THEN s ELSE popOne(s, t, last, idx2)

\* the while loop of makeTouchResponder that pops the stack down to
\* responder; a throwing touchCancelled leaves it before the pop
RECURSIVE popResponders(_, _, _, _, _)
popResponders(s, t, responder, idx, last) ==
  IF s.thrown \/ ~(Truthy(last) /\ last /= responder) THEN s
  ELSE popResponders(popUnlessThrown(cancelPopped(s, t, last), t, last, idx - 1),
                     t, responder, idx - 1, At(s.touch[t].touchResponders, idx - 1))

\* pushResponder with a plausible slip: nextTouchResponder is read one slot
\* too high
pushResponder_offByOne(s, t, responder) ==
  IF Truthy(responder)
  THEN
    LET s3 == assignTouch(s, t, responder)
        stack3 == Append(s3.touch[t].touchResponders, responder)
    IN [ s3 EXCEPT
           !.touch[t].touchResponders = stack3,
           !.touch[t].touchResponder = responder,
           !.touch[t].nextTouchResponder = At(stack3, Len(stack3) - 1) ]
  ELSE s

\* stack.push(responder) and the two pointers, after assignTouch
pushAssigned(s, t, responder) ==
  [ s EXCEPT
      !.touch[t].touchResponders = Append(@, responder),
      !.touch[t].touchResponder = responder,
      !.touch[t].nextTouchResponder =
         At(Append(s.touch[t].touchResponders, responder),
            Len(s.touch[t].touchResponders) - 1) ]

\* the end of makeTouchResponder: "now that we've popped off, we can push on"
pushResponder(s, t, responder) ==
  IF s.thrown THEN s
  ELSE IF Truthy(responder) THEN pushAssigned(assignTouch(s, t, responder), t, responder)
  ELSE s

\* popIfNeeded with a plausible slip: the test of shouldStack is missing and
\* the stack is popped whenever the responder changes
popIfNeeded_always(s, t, responder, shouldStack) ==
  popResponders(s, t, responder, Len(s.touch[t].touchResponders) - 1,
                At(s.touch[t].touchResponders, Len(s.touch[t].touchResponders) - 1))

\* the pop of makeTouchResponder: everything when not stacking, or down to a
\* responder that is already stacked
popIfNeeded(s, t, responder, shouldStack) ==
  IF ~shouldStack
     \/ (indexOf(s.touch[t].touchResponders, responder) > -1
         /\ At(s.touch[t].touchResponders, Len(s.touch[t].touchResponders) - 1)
              /= responder)
  THEN popResponders(s, t, responder, Len(s.touch[t].touchResponders) - 1,
                     At(s.touch[t].touchResponders, Len(s.touch[t].touchResponders) - 1))
  ELSE s

\* changeResponder with a plausible slip: the touch is not unassigned from
\* its previous view
changeResponder_noUnassign(s, t, responder, shouldStack) ==
  pushResponder(popIfNeeded(s, t, responder, shouldStack), t, responder)

\* makeTouchResponder once the confirmed responder is known to differ from
\* the current one: unassign, pop, push
changeResponder(s, t, responder, shouldStack) ==
  pushResponder(popIfNeeded(unassignTouch(s, t), t, responder, shouldStack),
                t, responder)

\* makeTouchResponder after sendEvent returned the confirmed responder:
\* "and again, now that we have more detail"
confirmResponder(sent, t, shouldStack) ==
  IF sent.s.thrown THEN sent.s
  ELSE IF sent.s.touch[t].touchResponder = sent.ret THEN sent.s
  ELSE changeResponder(sent.s, t, sent.ret, shouldStack)

\* makeTouchResponder once the call is on record
offerTouch(s, t, candidate, shouldStack, accepts) ==
  IF s.touch[t].touchResponder = candidate THEN s
  ELSE confirmResponder(sendEvent(s, t, candidate, accepts), t, shouldStack)

\* makeTouchResponder with a plausible slip: the two "already the responder"
\* returns are missing
makeTouchResponder_noReturn(s, t, candidate, shouldStack, accepts) ==
  LET sent == sendEvent(s, t, candidate, accepts)
  IN changeResponder(sent.s, t, sent.ret, shouldStack)

makeTouchResponder(s, t, candidate, shouldStack, accepts) ==
  offerTouch(Noted(s, "makeTouchResponder", candidate, t), t, candidate, shouldStack, accepts)

\* the chain captureTouch builds: from the target up to the starting point
RECURSIVE responderChain(_, _)
responderChain(view, startingPoint) ==
  IF Truthy(view) /\ view /= startingPoint
  THEN << view >> \o responderChain(nextResponder(view), startingPoint)
  ELSE << >>

\* the for loop of captureTouch over the chain, from index idx (1-based
\* here): the state after the queries and the view to offer the touch to, the
\* first that captures or else the target
RECURSIVE captureFrom(_, _, _, _, _)
captureFrom(s, t, chain, idx, captures) ==
  IF s.thrown \/ idx > Len(chain) THEN [ s |-> s, view |-> s.touch[t].targetView ]
  ELSE IF chain[idx] \in captures
  THEN [ s |-> Logged(s, "captureTouch", chain[idx], t), view |-> chain[idx] ]
  ELSE captureFrom(Logged(s, "captureTouch", chain[idx], t), t, chain, idx + 1, captures)

\* the makeTouchResponder call that ends captureTouch
captureOffer(c, t, shouldStack, accepts) ==
  IF c.s.thrown THEN c.s
  ELSE makeTouchResponder(c.s, t, c.view, shouldStack, accepts)

\* the offer to the target that follows the loop
targetOffer(s, t, shouldStack, accepts) ==
  IF s.thrown THEN s
  ELSE makeTouchResponder(s, t, s.touch[t].targetView, shouldStack, accepts)

\* captureTouch with a plausible slip: the return after the capturing view
\* was made responder is missing
captureTouch_noReturn(s, t, startingPoint, shouldStack, captures, accepts) ==
  targetOffer(captureOffer(captureFrom(s, t,
                                       responderChain(s.touch[t].targetView,
                                                      IF Truthy(startingPoint)
                                                      THEN startingPoint
                                                      ELSE RootResponder),
                                       1, captures),
                           t, shouldStack, accepts),
              t, shouldStack, accepts)

captureTouch(s, t, startingPoint, shouldStack, captures, accepts) ==
  captureOffer(captureFrom(s, t,
                           responderChain(s.touch[t].targetView,
                                          IF Truthy(startingPoint) THEN startingPoint
                                          ELSE RootResponder),
                           1, captures),
               t, shouldStack, accepts)

(***************************************************************************)
(* Event router                                                            *)
(***************************************************************************)
\* a raw changed touch of a DOM event
RawTouch(id, target) == [ identifier |-> id, targetView |-> target ]

\* SC.Touch.create(touch, this) and this._touches[touch.identifier] = entry
registerTouch(s, raw) ==
  Noted([ s EXCEPT !.touch[raw.identifier] = NewTouch(raw.targetView),
                   !.touches = @ \cup {raw.identifier},
                   !.data.page[raw.identifier] = s.evt.page[raw.identifier],
                   !.data.timeStamp[raw.identifier] = s.evt.timeStamp,
                   !.data.event[raw.identifier] = Undefined ],
        "register", raw.targetView, raw.identifier)

\* touchstart(evt): the loop over evt.changedTouches, left at the first
\* exception
RECURSIVE touchstartLoop(_, _, _, _)
touchstartLoop(s, changedTouches, captures, accepts) ==
  IF s.thrown \/ changedTouches = << >> THEN s
  ELSE touchstartLoop(captureTouch(registerTouch(s, Head(changedTouches)),
                                   Head(changedTouches).identifier, RootResponder,
                                   FALSE, captures, accepts),
                      Tail(changedTouches), captures, accepts)

\* the catch block of touchstart and of touchend: warn, SC.RunLoop.end()
Caught(s) == RunLoopEnd([ s EXCEPT !.thrown = FALSE ])

touchstartLeave(s) == IF s.thrown THEN Caught(s) ELSE s

\* touchstart(evt): try { loop } catch { SC.RunLoop.end() }
touchstart(s, changedTouches, captures, accepts) ==
  touchstartLeave(touchstartLoop(s, changedTouches, captures, accepts))

\* the end of the tap path: touchEnd to the view that took the touch
tapEnd(s, t, view) ==
  IF s.thrown THEN s
  ELSE IF Truthy(s.touch[t].touchResponder) /\ s.touch[t].touchResponder /= view
  THEN Logged(s, "touchEnd", s.touch[t].touchResponder, t)
  ELSE s

\* the tap path of SC.ScrollView.touchEnd: the view hands the touch to the
\* view under it and sends that view touchEnd
tapPath(s, t, view) ==
  tapEnd(captureTouch(s, t, view, FALSE, s.views.captures, s.views.accepts), t, view)

\* what the view does in the callback of touchend
reactToEnd(s, action, responder, t) ==
  IF ~s.thrown /\ action = "touchEnd" /\ responder \in s.views.taps
  THEN tapPath(s, t, responder)
  ELSE s

\* responder.tryToPerform(action, touchEntry, evt) of touchend
performEnd(s, action, responder, t) ==
  reactToEnd(Logged(s, action, responder, t), action, responder, t)

\* endResponders with a plausible slip: the action is not switched to
\* touchCancelled after the first frame
RECURSIVE endResponders_sameAction(_, _, _, _, _)
endResponders_sameAction(r, t, responders, responderIdx, responder) ==
  IF ~Truthy(responder) THEN r
  ELSE
    LET s1 == Logged(r.s, r.action, responder, t)
        idx2 == responderIdx - 1
    IN endResponders_sameAction([ s |-> s1, action |-> r.action ], t, responders,
                                idx2, At(responders, idx2))

RECURSIVE endResponders(_, _, _, _, _)

\* responderIdx--; responder = responders[responderIdx]; action =
\* "touchCancelled".  responders is the stack array itself, so the callback
\* just made may have changed it.
endNext(s, t, idx2) ==
  endResponders([ s |-> s, action |-> "touchCancelled" ], t,
                s.touch[t].touchResponders, idx2, At(s.touch[t].touchResponders, idx2))

\* the while loop of touchend over one touch's responder stack
endResponders(r, t, responders, responderIdx, responder) ==
  IF r.s.thrown \/ ~Truthy(responder) THEN r
  ELSE endNext(performEnd(r.s, r.action, responder, t), t, responderIdx - 1)

\* the head of the loop body of touchend: time stamp, position, unassign
endUpdate(s, t) ==
  unassignTouch(Noted([ s EXCEPT !.data.timeStamp[t] = s.evt.timeStamp,
                                 !.data.page[t] = s.evt.page[t] ],
                      "unassign", s.touch[t].view, t),
                t)

\* "call end for all items in chain"
endFrames(r, t) ==
  IF Truthy(r.s.touch[t].touchResponder)
  THEN endResponders(r, t, r.s.touch[t].touchResponders,
                     Len(r.s.touch[t].touchResponders) - 1,
                     At(r.s.touch[t].touchResponders,
                        Len(r.s.touch[t].touchResponders) - 1))
  ELSE r

\* the tail of the loop body of touchend: clear the responders and delete
\* the entry from _touches; touch.view is left as it is
endRemove(r, t) ==
  IF r.s.thrown THEN r
  ELSE [ r EXCEPT !.s.touch[t] = [ EndedTouch EXCEPT !.view = r.s.touch[t].view ],
                  !.s.touches = @ \ {t} ]

\* the for loop of touchend over evt.changedTouches; r carries the state and
\* the handler's local variable `action'.  An identifier without an entry in
\* _touches makes touchEntry undefined and the write to it a TypeError.  The
\* loop is left at the first exception.
RECURSIVE touchendLoop(_, _)
touchendLoop(r, changedTouches) ==
  IF r.s.thrown \/ changedTouches = << >> THEN r
  ELSE IF Head(changedTouches) \notin r.s.touches THEN [ r EXCEPT !.s.thrown = TRUE ]
  ELSE touchendLoop(endRemove(endFrames([ r EXCEPT !.s = endUpdate(r.s, Head(changedTouches)) ],
                                        Head(changedTouches)),
                              Head(changedTouches)),
                    Tail(changedTouches))

touchendLeave(r) == IF r.s.thrown THEN Caught(r.s) ELSE RunLoopEnd(r.s)

\* touchend(evt): SC.RunLoop.begin(); try { loop } catch { SC.RunLoop.end();
\* return }; SC.RunLoop.end()
touchend(s, changedTouches, isCancel) ==
  touchendLeave(touchendLoop([ s |-> RunLoopBegin(s),
                               action |-> IF isCancel THEN "touchCancelled"
                                          ELSE "touchEnd" ],
                             changedTouches))

\* touchcancel(evt)
touchcancel(s, changedTouches) == touchend(s, changedTouches, TRUE)

\* _touches[identifier] when the registry has no such entry (undefined)
NoEntry == 0

\* view.tryToPerform("touchesDragged", evt, viewTouches) with
\* evt.viewChangedTouches = changed
Dragged(view, changed, viewTouches) ==
  [ action |-> "touchesDragged", view |-> view, touch |-> 0,
    viewChangedTouches |-> changed, viewTouches |-> viewTouches ]

\* changedViews after one more touch of view: an entry per view, in the order
\* the views were first met, each with its touches in batch order
RECURSIVE addChanged(_, _, _)
addChanged(changedViews, view, t) ==
  IF changedViews = << >> THEN << [ view |-> view, touches |-> << t >> ] >>
  ELSE IF Head(changedViews).view = view
  THEN << [ Head(changedViews) EXCEPT !.touches = Append(@, t) ] >> \o Tail(changedViews)
  ELSE << Head(changedViews) >> \o addChanged(Tail(changedViews), view, t)

\* the body of the first loop of touchmove for a touch that has an entry
moveOne(m, t) ==
  [ s |-> Noted([ m.s EXCEPT !.data.page[t] = m.s.evt.page[t],
                             !.data.timeStamp[t] = m.s.evt.timeStamp,
                             !.data.event[t] = "evt" ],
                "update", m.s.touch[t].view, t),
    changedViews |-> IF Truthy(m.s.touch[t].touchResponder)
                     THEN addChanged(m.changedViews, m.s.touch[t].touchResponder, t)
                     ELSE m.changedViews,
    touchEntry |-> t ]

\* the first loop of touchmove: update the entries and group them by
\* responder; m carries the state, changedViews and the local touchEntry,
\* which is undefined after an identifier without entry
RECURSIVE moveUpdate(_, _)
moveUpdate(m, changedTouches) ==
  IF changedTouches = << >> THEN m
  ELSE IF Head(changedTouches) \notin m.s.touches
  THEN moveUpdate([ m EXCEPT !.touchEntry = NoEntry ], Tail(changedTouches))
  ELSE moveUpdate(moveOne(m, Head(changedTouches)), Tail(changedTouches))

\* view.tryToPerform("touchesDragged", evt, viewTouches)
performDragged(s, view, changed) ==
  [ s EXCEPT !.log = Append(@, Dragged(view, changed, touchesForView(s, view))),
             !.thrown = << "touchesDragged", view >> \in s.views.throws ]

\* the second loop of touchmove: one touchesDragged per changed view.  A view
\* without index entry has undefined viewTouches, a view with an empty set an
\* undefined first object: reading from either is a TypeError.
RECURSIVE moveSend(_, _)
moveSend(s, changedViews) ==
  IF s.thrown \/ changedViews = << >> THEN s
  ELSE IF touchesForView(s, Head(changedViews).view) = {} THEN [ s EXCEPT !.thrown = TRUE ]
  ELSE moveSend(performDragged(s, Head(changedViews).view, Head(changedViews).touches),
                Tail(changedViews))

\* the third loop of touchmove: it clears the event reference of the entry
\* the first loop looked up last, once per changed touch
moveClear(s, touchEntry, len) ==
  IF len = 0 THEN s
  ELSE IF touchEntry = NoEntry THEN [ s EXCEPT !.thrown = TRUE ]
  ELSE [ s EXCEPT !.data.event[touchEntry] = Null ]

moveClearUnlessThrown(s, touchEntry, len) ==
  IF s.thrown THEN s ELSE moveClear(s, touchEntry, len)

\* the second and third loop, after the first left m
moveDeliver(m, len) ==
  moveClearUnlessThrown(moveSend(m.s, m.changedViews), m.touchEntry, len)

\* the catch block of touchmove (warn) and the SC.RunLoop.end() after it
touchmoveLeave(s) == RunLoopEnd([ s EXCEPT !.thrown = FALSE ])

\* touchmove(evt): SC.RunLoop.begin(); try { three loops } catch { warn };
\* SC.RunLoop.end()
touchmove(s, changedTouches) ==
  touchmoveLeave(moveDeliver(moveUpdate([ s |-> RunLoopBegin(s), changedViews |-> << >>,
                                          touchEntry |-> NoEntry ], changedTouches),
                             Len(changedTouches)))

(***************************************************************************)
(* Operations                                                              *)
(***************************************************************************)
Commit(s) ==
  /\ touch' = s.touch
  /\ touches' = s.touches
  /\ touchedViews' = s.touchedViews
  /\ hasTouch' = s.hasTouch
  /\ UNCHANGED << scrollVars, paneVars, fanVars >>

TypeOK ==
  /\ touches \subseteq TouchIds
  /\ DOMAIN touchedViews \subseteq Views
  /\ hasTouch \in [Views -> BOOLEAN]

(***************************************************************************)
(* The index driven directly: any sequence of assignTouch / unassignTouch  *)
(* calls on touch entries that exist.                                      *)
(***************************************************************************)
InitIndex ==
  /\ touch = [ t \in TouchIds |-> NewTouch("Leaf") ]
  /\ touches = TouchIds
  /\ touchedViews = << >>
  /\ hasTouch = [ v \in Views |-> FALSE ]
  /\ ScrollUnused /\ PanesUnused /\ FanOutUnused

CallAssignTouch(t, view) ==
  /\ HasEntry(State, view) => touchedViews[view].touchCount < MaxCount
  /\ Commit(assignTouch(State, t, view))

CallUnassignTouch(t) == Commit(unassignTouch(State, t))

NextIndex ==
  \/ \E t \in TouchIds, view \in Views : CallAssignTouch(t, view)
  \/ \E t \in TouchIds : CallUnassignTouch(t)

SpecIndex == InitIndex /\ [][NextIndex]_vars

(***************************************************************************)
(* The root responder driven by raw touch events and by the calls views    *)
(* make on a touch (touch.makeTouchResponder, touch.captureTouch).         *)
(***************************************************************************)
Init ==
  /\ touch = [ t \in TouchIds |-> EndedTouch ]
  /\ touches = {}
  /\ touchedViews = << >>
  /\ hasTouch = [ v \in Views |-> FALSE ]
  /\ ScrollUnused /\ PanesUnused /\ FanOutUnused

\* the sequences without repetition over the set S, of length 1 .. |S|
RECURSIVE Batches(_)
Batches(S) ==
  IF S = {} THEN {}
  ELSE UNION { {<< x >>} \cup { << x >> \o b : b \in Batches(S \ {x}) } : x \in S }

\* the views from view up to the top of the responder chain
RECURSIVE Ancestry(_)
Ancestry(view) == IF Truthy(view) THEN {view} \cup Ancestry(nextResponder(view)) ELSE {}

RECURSIVE SumLen(_, _)
SumLen(s, ids) ==
  IF ids = {} THEN 0
  ELSE LET t == CHOOSE x \in ids : TRUE
       IN Len(s.touch[t].touchResponders) + SumLen(s, ids \ {t})

\* the identifiers of ended touches that a view's touch set still holds
Stale(s) == { t \in TouchIds \ s.touches : Truthy(s.touch[t].view) }

\* the touches that are down, the frames of their responder stacks and the
\* ended touches the index still holds fill at most MaxSlots slots
FramesBounded(s) ==
  Cardinality(s.touches) + SumLen(s, TouchIds) + Cardinality(Stale(s)) <= MaxSlots

\* the state with the views behaving as given during the operation
With(s, views) == [ s EXCEPT !.views = views ]

\* one callback of one view throws
Throwing(actions) ==
  { [ Behaved EXCEPT !.throws = {<< a, v >>} ] : a \in actions, v \in Views }

\* the answer sets with at most one view saying YES.  An operation follows
\* the first YES it meets, so these lead to every state that arbitrary answer
\* sets lead to; the properties quantify over arbitrary answer sets.
AtMostOne(S) == {{}} \cup { {v} : v \in S }

\* one view takes the tap path in touchEnd; the views under it do not capture
\* and answer touchStart as given
Tapping ==
  { [ Behaved EXCEPT !.taps = {v}, !.accepts = acc ] : v \in Views, acc \in AtMostOne(Views) }

\* the browser does not hand out again the identifier of an ended touch that
\* a view's touch set still holds
StaleIds == Stale(State)

\* the operation is taken while its result is within the bound
Within(s) == FramesBounded(s) /\ Commit(s)

\* a touchstart event for touches that are not down yet
TouchStart(ids, targets, captures, accepts, views) ==
  Within(touchstart(With(State, views),
                    [ i \in 1 .. Len(ids) |-> RawTouch(ids[i], targets[i]) ],
                    captures, accepts))

\* a view calls touch.makeTouchResponder(responder, shouldStack)
MakeTouchResponder(t, responder, shouldStack, accepts) ==
  Within(makeTouchResponder(State, t, responder, shouldStack, accepts))

\* a view calls touch.captureTouch(startingPoint, shouldStack)
CaptureTouch(t, startingPoint, shouldStack, captures, accepts) ==
  Within(captureTouch(State, t, startingPoint, shouldStack, captures, accepts))

\* a touchend event for touches that are down
TouchEnd(ids, views) == Commit(touchend(With(State, views), ids, FALSE))

\* a touchcancel event for touches that are down
TouchCancel(ids, views) == Commit(touchcancel(With(State, views), ids))

\* a touchmove event; the browser may name touches that are not down
TouchMove(ids, views) == Commit(touchmove(With(State, views), ids))

\* the views captureTouch queries at most: those of its chain
ChainViews(target, startingPoint) ==
  LET chain == responderChain(target, IF Truthy(startingPoint) THEN startingPoint
                                      ELSE RootResponder)
  IN { chain[i] : i \in 1 .. Len(chain) }

\* the starting points a view can pass to captureTouch (undefined: the root)
StartingPoints == Views \cup {Undefined}

Next ==
  \/ \E ids \in Batches(TouchIds \ (touches \cup StaleIds)) :
       \E targets \in [1 .. Len(ids) -> Targets], captures \in AtMostOne(Views),
          accepts \in AtMostOne(Views),
          views \in {Behaved} \cup Throwing({"captureTouch", "touchStart"}) :
         TouchStart(ids, targets, captures, accepts, views)
  \/ \E t \in touches, responder \in Views, shouldStack \in BOOLEAN :
       \E accepts \in AtMostOne(Ancestry(responder)) :
         MakeTouchResponder(t, responder, shouldStack, accepts)
  \/ \E t \in touches, startingPoint \in StartingPoints, shouldStack \in BOOLEAN :
       \E captures \in AtMostOne(ChainViews(touch[t].targetView, startingPoint)),
          accepts \in AtMostOne(Ancestry(touch[t].targetView)) :
         CaptureTouch(t, startingPoint, shouldStack, captures, accepts)
  \/ \E ids \in Batches(touches) :
       \E views \in {Behaved} \cup Throwing({"touchEnd", "touchCancelled"}) \cup Tapping :
         TouchEnd(ids, views)
  \/ \E ids \in Batches(touches) :
       \E views \in {Behaved} \cup Throwing({"touchCancelled"}) :
         TouchCancel(ids, views)
  \/ \E ids \in Batches(TouchIds) :
       \E views \in {Behaved} \cup Throwing({"touchesDragged"}) :
         TouchMove(ids, views)

Spec == Init /\ [][Next]_vars

(***************************************************************************)
(* Properties                                                              *)
(***************************************************************************)
\* the index and the touch entries of a state, without the log
Core(s) == << s.touch, s.touches, s.touchedViews, s.hasTouch >>

\* the calls of one kind in the log of s
Calls(s, action) == SelectSeq(s.log, LAMBDA c : c.action = action)

\* the log entries of s about touch t
CallsFor(s, t) == SelectSeq(s.log, LAMBDA c : c.touch = t)

NoDuplicates(stack) ==
  \A i, j \in 1 .. Len(stack) : stack[i] = stack[j] => i = j

Reverse(seq) == [ i \in 1 .. Len(seq) |-> seq[Len(seq) + 1 - i] ]

\* C1: after every assignTouch / unassignTouch call, a view has a non-empty
\* touch set exactly when its hasTouch indicator is true.
C1_HasTouchIffNonEmpty ==
  \A view \in Views :
    (HasEntry(State, view) /\ touchesForView(State, view) /= {}) <=> hasTouch[view]

\* C2: the responder stack of a touch never contains the same view twice.
C2_StackHasNoDuplicates ==
  \A t \in touches : NoDuplicates(touch[t].touchResponders)

\* C3: with the stack [A, B], makeTouchResponder(touch, A, true) (A accepting)
\* sends exactly one touchCancelled, to B, and leaves the stack [A] with
\* touchResponder = A and nextTouchResponder undefined.
C3_PopBackToStacked ==
  \A t \in touches, A \in Views, B \in Views :
    (A /= B /\ touch[t].touchResponders = << A, B >>) =>
      \A accepts \in SUBSET Views :
        A \in accepts =>
          LET s == makeTouchResponder(State, t, A, TRUE, accepts)
          IN /\ Calls(s, "touchCancelled") = << Call("touchCancelled", B, t) >>
             /\ s.touch[t].touchResponders = << A >>
             /\ s.touch[t].touchResponder = A
             /\ ~Truthy(s.touch[t].nextTouchResponder)

\* C4: touchResponder is the last element of the responder stack and
\* nextTouchResponder the second-to-last, each undefined when the stack is
\* too short, after every makeTouchResponder call.
C4_ResponderPointers ==
  \A t \in touches :
    LET stack == touch[t].touchResponders
    IN /\ touch[t].touchResponder = At(stack, Len(stack) - 1)
       /\ touch[t].nextTouchResponder = At(stack, Len(stack) - 2)

\* reached: a touch with two stacked responders and both pointers on them
C4_Witness ==
  \E t \in touches :
    /\ Len(touch[t].touchResponders) >= 2
    /\ touch[t].touchResponder = touch[t].touchResponders[Len(touch[t].touchResponders)]
    /\ touch[t].nextTouchResponder
         = touch[t].touchResponders[Len(touch[t].touchResponders) - 1]
    /\ Truthy(touch[t].nextTouchResponder)

\* the touchStart offer to candidate is declined by every view it reaches
Declined(t, candidate, accepts) ==
  /\ touch[t].touchResponder /= candidate
  /\ ~Truthy(sendEvent(State, t, candidate, accepts).ret)

\* C5: when the candidate declines the touch, makeTouchResponder changes
\* nothing (stack, pointers, index, hasTouch) and sends no touchCancelled.
C5_DeclineChangesNothing ==
  \A t \in touches, candidate \in Views, shouldStack \in BOOLEAN,
     accepts \in SUBSET Views :
    Declined(t, candidate, accepts) =>
      LET s == makeTouchResponder(State, t, candidate, shouldStack, accepts)
      IN /\ Core(s) = Core(State)
         /\ Calls(s, "touchCancelled") = << >>

\* the second of two makeTouchResponder(t, A) calls in a row, the views
\* answering touchStart the same way both times
SecondCall(t, A, shouldStack, accepts) ==
  LET first == makeTouchResponder(State, t, A, shouldStack, accepts)
      second == makeTouchResponder([ first EXCEPT !.log = << >> ], t, A,
                                   shouldStack, accepts)
  IN [ first |-> first, second |-> second ]

\* C6 as stated: the second of two makeTouchResponder(t, A) calls in a row
\* sends no touchStart and no touchCancelled and changes nothing.
C6_SecondCallIsSilent ==
  \A t \in touches, A \in Views, accepts \in SUBSET Views :
    LET r == SecondCall(t, A, FALSE, accepts)
    IN /\ Calls(r.second, "touchStart") = << >>
       /\ Calls(r.second, "touchCancelled") = << >>
       /\ Core(r.second) = Core(r.first)

\* C6 amended: when the first call left A as the touch's responder, the
\* second call makes no view callback at all and changes nothing.
C6_SecondCallIsSilentOnceAccepted ==
  \A t \in touches, A \in Views, shouldStack \in BOOLEAN, accepts \in SUBSET Views :
    LET r == SecondCall(t, A, shouldStack, accepts)
    IN r.first.touch[t].touchResponder = A =>
         /\ r.second.log = << >>
         /\ Core(r.second) = Core(r.first)

\* reached: a touch whose responder A was made responder by a first call that
\* changed the stack, and a second call that is silent
C6_Witness ==
  \E t \in touches, A \in Views :
    LET r == SecondCall(t, A, FALSE, {A})
    IN /\ touch[t].touchResponder /= A
       /\ r.first.touch[t].touchResponder = A
       /\ Calls(r.first, "touchStart") /= << >>
       /\ r.second.log = << >>

\* the captureTouch queries the claim expects: down the chain from the
\* outermost view, stopping at the first view that captures
RECURSIVE QueriedUntilCapture(_, _)
QueriedUntilCapture(chain, captures) ==
  IF chain = << >> THEN << >>
  ELSE IF Head(chain) \in captures THEN << Head(chain) >>
  ELSE << Head(chain) >> \o QueriedUntilCapture(Tail(chain), captures)

\* the views sent the captureTouch query, in order
Queried(s) == [ i \in 1 .. Len(Calls(s, "captureTouch")) |->
                  Calls(s, "captureTouch")[i].view ]

\* C7: captureTouch queries the views between the raw target and the
\* starting point top-down, outermost first, and stops at the first capturer.
C7_CaptureIsTopDown ==
  \A t \in touches, startingPoint \in StartingPoints, shouldStack \in BOOLEAN,
     captures \in SUBSET Views, accepts \in SUBSET Views :
    LET start == IF Truthy(startingPoint) THEN startingPoint ELSE RootResponder
        topDown == Reverse(responderChain(touch[t].targetView, start))
        s == captureTouch(State, t, startingPoint, shouldStack, captures, accepts)
    IN Queried(s) = QueriedUntilCapture(topDown, captures)

\* view has touches other than t assigned to it
OtherTouches(view, t) == touchesForView(State, view) \ {t} /= {}

\* the pop at position i of the log was preceded by touchCancelled to the
\* popped view
Notified(s, i) ==
  i > 1 /\ s.log[i - 1] = Call("touchCancelled", s.log[i].view, s.log[i].touch)

Pops(s) == { i \in 1 .. Len(s.log) : s.log[i].action = "pop" }

\* C8 as stated: every view makeTouchResponder pops is sent touchCancelled,
\* except one that accepts multitouch and still has other touches.
C8_PoppedNotifiedUnlessMultitouchBusy ==
  \A t \in touches, candidate \in Views, shouldStack \in BOOLEAN,
     accepts \in SUBSET Views :
    LET s == makeTouchResponder(State, t, candidate, shouldStack, accepts)
    IN \A i \in Pops(s) :
         Notified(s, i) <=>
           ~(acceptsMultitouch(s.log[i].view) /\ OtherTouches(s.log[i].view, t))

\* C8 amended: every view makeTouchResponder pops is sent touchCancelled,
\* except one that does not accept multitouch and still has other touches.
C8_PoppedNotifiedUnlessSingleTouchBusy ==
  \A t \in touches, candidate \in Views, shouldStack \in BOOLEAN,
     accepts \in SUBSET Views :
    LET s == makeTouchResponder(State, t, candidate, shouldStack, accepts)
    IN \A i \in Pops(s) :
         Notified(s, i) <=>
           ~(~acceptsMultitouch(s.log[i].view) /\ OtherTouches(s.log[i].view, t))

\* reached: makeTouchResponder pops a view that does not accept multitouch
\* while another touch is still assigned to it, and does not notify it
C8_Witness ==
  \E t \in touches, candidate \in Views, accepts \in SUBSET Views :
    LET s == makeTouchResponder(State, t, candidate, FALSE, accepts)
    IN \E i \in Pops(s) :
         /\ ~acceptsMultitouch(s.log[i].view)
         /\ OtherTouches(s.log[i].view, t)
         /\ ~Notified(s, i)

\* the notifications a touch with this stack gets when it ends alone:
\* innermost frame first, `first' to it and touchCancelled to the others
EndCalls(t, stack, first) ==
  [ i \in 1 .. Len(stack) |->
      Call(IF i = 1 THEN first ELSE "touchCancelled", stack[Len(stack) + 1 - i], t) ]

\* C9: a touch that ends alone notifies its stack innermost to outermost,
\* each frame once: through touchend the innermost gets touchEnd and the
\* others touchCancelled; through touchcancel every frame gets touchCancelled.
C9_EndThenCancelledOutwards ==
  \A t \in touches :
    /\ touchend(State, << t >>, FALSE).log
         = EndCalls(t, touch[t].touchResponders, "touchEnd")
    /\ touchcancel(State, << t >>).log
         = EndCalls(t, touch[t].touchResponders, "touchCancelled")

\* reached: the stack [Root, Mid, Leaf], whose end notifies Leaf, Mid, Root
C9_Witness ==
  \E t \in touches :
    /\ touch[t].touchResponders = << "Root", "Mid", "Leaf" >>
    /\ touchend(State, << t >>, FALSE).log
         = << Call("touchEnd", "Leaf", t), Call("touchCancelled", "Mid", t),
              Call("touchCancelled", "Root", t) >>
    /\ touchcancel(State, << t >>).log
         = << Call("touchCancelled", "Leaf", t), Call("touchCancelled", "Mid", t),
              Call("touchCancelled", "Root", t) >>

\* C10: in a touchend batch of several touches, every ending touch notifies
\* its innermost responder with touchEnd and its outer frames with
\* touchCancelled.
C10_EveryTouchOfBatchEnds ==
  \A ids \in Batches(touches) :
    LET s == touchend(State, ids, FALSE)
    IN \A i \in 1 .. Len(ids) :
         CallsFor(s, ids[i]) = EndCalls(ids[i], touch[ids[i]].touchResponders, "touchEnd")

\* the ways the views can behave during touchend: all return, one callback
\* throws, or one view takes the tap path with the views under it answering
\* in any way
EndBehaviours ==
  {Behaved} \cup Throwing({"touchEnd", "touchCancelled"})
    \cup { [ Behaved EXCEPT !.taps = {v}, !.captures = cap, !.accepts = acc ] :
             v \in Views, cap \in SUBSET Views, acc \in SUBSET Views }

\* C11: after touchend or touchcancel returns, every touch of changedTouches
\* has left the registry, also when a touchEnd or touchCancelled callback
\* threw.
C11_EndedTouchesLeaveRegistry ==
  \A ids \in Batches(touches), isCancel \in BOOLEAN :
    \A views \in {Behaved} \cup Throwing({"touchEnd", "touchCancelled"}) :
      LET s == touchend(With(State, views), ids, isCancel)
      IN \A i \in 1 .. Len(ids) : ids[i] \notin s.touches

\* the touch whose callback threw: the one of the last callback made
Culprit(s) == s.log[Len(s.log)].touch

\* the views that are responder of a touch of the batch
Responders(ids) ==
  { touch[ids[i]].touchResponder : i \in { j \in 1 .. Len(ids) : ids[j] \in touches } }
    \ {Undefined, Null}

\* the views sent touchesDragged
DraggedViews(s) ==
  { s.log[i].view : i \in { j \in 1 .. Len(s.log) : s.log[j].action = "touchesDragged" } }

\* C12: when a view callback throws while one touch of a batch is dispatched,
\* the other touches of the batch are still processed: registered on
\* touchstart, their responders sent touchesDragged on touchmove, removed from
\* the registry on touchend.
C12_SiblingsSurviveThrow ==
  /\ \A ids \in Batches(TouchIds \ (touches \cup StaleIds)) :
       \A views \in Throwing({"captureTouch", "touchStart"}),
          captures \in SUBSET Views, accepts \in SUBSET Views :
         LET s == touchstart(With(State, views),
                             [ i \in 1 .. Len(ids) |-> RawTouch(ids[i], "Leaf") ],
                             captures, accepts)
         IN \A i \in 1 .. Len(ids) : ids[i] \in s.touches
  /\ \A ids \in Batches(touches) :
       \A views \in Throwing({"touchesDragged"}) :
         LET s == touchmove(With(State, views), ids)
         IN \A v \in Responders(ids) : HasEntry(State, v) => v \in DraggedViews(s)
  /\ \A ids \in Batches(touches) :
       \A views \in Throwing({"touchEnd", "touchCancelled"}) :
         LET s == touchend(With(State, views), ids, FALSE)
         IN \A i \in 1 .. Len(ids) :
              (s.log /= << >> /\ ids[i] /= Culprit(s)) => ids[i] \notin s.touches

\* C13: after touchend or touchcancel has processed a touch, no view's touch
\* set holds it and every view without touches has hasTouch false, whatever
\* the callbacks do: return, throw, or re-capture the touch from touchEnd.
C13_EndReleasesIndex ==
  \A ids \in Batches(touches), isCancel \in BOOLEAN, views \in EndBehaviours :
    LET s == touchend(With(State, views), ids, isCancel)
    IN \A i \in 1 .. Len(ids) :
         ids[i] \notin s.touches =>
           \A v \in Views :
             /\ ids[i] \notin touchesForView(s, v)
             /\ touchesForView(s, v) = {} => ~s.hasTouch[v]

\* the positions a raw event can report for the touches
Pages == [ TouchIds -> Points ]

\* the state while the raw event with these positions is handled
WithEvent(s, page) == [ s EXCEPT !.evt = RawEvent(page) ]

\* the touches of the batch that have an entry in the registry
Known(ids) == { ids[i] : i \in { j \in 1 .. Len(ids) : ids[j] \in touches } }

\* C14: a touchmove or touchend that names an identifier without entry skips
\* that touch only: every other touch of the batch gets its position updated
\* and its responder sent touchesDragged on move, and is notified and removed
\* from the registry on end.
C14_UnknownTouchIsSkipped ==
  \A ids \in Batches(TouchIds), page \in Pages :
    Known(ids) /= { ids[i] : i \in 1 .. Len(ids) } =>
      /\ LET s == touchmove(WithEvent(State, page), ids)
         IN /\ \A t \in Known(ids) : s.data.page[t] = page[t]
            /\ \A v \in Responders(ids) : HasEntry(State, v) => v \in DraggedViews(s)
      /\ LET s == touchend(WithEvent(State, page), ids, FALSE)
         IN \A t \in Known(ids) :
              /\ t \notin s.touches
              /\ Truthy(touch[t].touchResponder) => CallsFor(s, t) /= << >>

\* the touchesDragged calls made to view
DraggedTo(s, view) ==
  SelectSeq(s.log, LAMBDA c : c.action = "touchesDragged" /\ c.view = view)

\* the elements of a sequence
Range(seq) == { seq[i] : i \in 1 .. Len(seq) }

Bookkeeping(s) ==
  SelectSeq(s.book, LAMBDA b : b.what \in {"register", "update", "unassign"})

\* every bookkeeping step was made before the first callback
BookkeptFirst(s) ==
  \A i \in 1 .. Len(Bookkeeping(s)) : Bookkeeping(s)[i].calls = 0

\* C16: within one raw event, the bookkeeping of every changed touch is done
\* before the first view callback of the event.
C16_BookkeepingBeforeCallbacks ==
  /\ \A ids \in Batches(TouchIds \ (touches \cup StaleIds)) :
       \A captures \in SUBSET Views, accepts \in SUBSET Views :
         BookkeptFirst(touchstart(State,
                                  [ i \in 1 .. Len(ids) |-> RawTouch(ids[i], "Leaf") ],
                                  captures, accepts))
  /\ \A ids \in Batches(touches) :
       /\ BookkeptFirst(touchmove(State, ids))
       /\ BookkeptFirst(touchend(State, ids, FALSE))
       /\ BookkeptFirst(touchcancel(State, ids))

\* C17: every raw event handler leaves the run-loop depth as it found it, on
\* normal return and when a view callback throws.
C17_RunLoopBalanced ==
  /\ \A ids \in Batches(TouchIds \ (touches \cup StaleIds)) :
       \A views \in {Behaved} \cup Throwing(Callbacks),
          captures \in SUBSET Views, accepts \in SUBSET Views :
         touchstart(With(State, views),
                    [ i \in 1 .. Len(ids) |-> RawTouch(ids[i], "Leaf") ],
                    captures, accepts).depth = 0
  /\ \A ids \in Batches(touches) :
       \A views \in {Behaved} \cup Throwing(Callbacks) :
         /\ touchmove(With(State, views), ids).depth = 0
         /\ touchend(With(State, views), ids, FALSE).depth = 0
         /\ touchcancel(With(State, views), ids).depth = 0

\* the writes of view.hasTouch made so far, in order
HasTouchWrites(s, view) ==
  LET notes == SelectSeq(s.book, LAMBDA b : b.view = view
                                   /\ b.what \in {"hasTouch:YES", "hasTouch:NO"})
  IN [ i \in 1 .. Len(notes) |-> notes[i].what ]

\* exactly the touches t1 and t2 are assigned to view
BothAssigned(view, t1, t2) ==
  /\ t1 /= t2 /\ {t1, t2} \subseteq touches
  /\ touch[t1].view = view /\ touch[t2].view = view
  /\ HasEntry(State, view)
  /\ touchedViews[view] = [ touches |-> {t1, t2}, touchCount |-> 2 ]

\* the callbacks of a touchend or touchcancel that return or throw
EndOutcomes == {Behaved} \cup Throwing({"touchEnd", "touchCancelled"})

\* the state after t1 ended alone
OneEnded(t1, views, isCancel) == touchend(With(State, views), << t1 >>, isCancel)

\* the state after t1 and then t2 ended
BothEnded(t1, t2, views, isCancel) ==
  touchend(OneEnded(t1, views, isCancel), << t2 >>, isCancel)

\* the state after t1 and t2 went down together on Leaf and view took both
BothStarted(view, t1, t2) ==
  touchstart(State, << RawTouch(t1, "Leaf"), RawTouch(t2, "Leaf") >>, {}, {view})

\* the state after the two touches of BothStarted ended one after the other
StartedAndEnded(view, t1, t2) ==
  touchend(touchend(BothStarted(view, t1, t2), << t1 >>, FALSE), << t2 >>, FALSE)

\* C18: when two touches are assigned to a view and one ends, the view keeps
\* hasTouch and its touch set is exactly the other touch, with no write of
\* hasTouch; when the other ends too, hasTouch is false and the entry is gone,
\* with one write of NO.  From a view without touches, two touches going down
\* on it and ending write hasTouch YES once and NO once.
C18_FanOutTogglesOnce ==
  /\ \A view \in Views, t1 \in TouchIds, t2 \in TouchIds :
       BothAssigned(view, t1, t2) =>
         \A views \in EndOutcomes, isCancel \in BOOLEAN :
           /\ OneEnded(t1, views, isCancel).hasTouch[view]
           /\ touchesForView(OneEnded(t1, views, isCancel), view) = {t2}
           /\ HasTouchWrites(OneEnded(t1, views, isCancel), view) = << >>
           /\ ~BothEnded(t1, t2, views, isCancel).hasTouch[view]
           /\ ~HasEntry(BothEnded(t1, t2, views, isCancel), view)
           /\ HasTouchWrites(BothEnded(t1, t2, views, isCancel), view) = << "hasTouch:NO" >>
  /\ \A view \in Views, t1 \in TouchIds, t2 \in TouchIds :
       (t1 /= t2 /\ {t1, t2} \cap (touches \cup StaleIds) = {} /\ ~HasEntry(State, view)) =>
         /\ BothStarted(view, t1, t2).touchedViews[view]
              = [ touches |-> {t1, t2}, touchCount |-> 2 ]
         /\ HasTouchWrites(BothStarted(view, t1, t2), view) = << "hasTouch:YES" >>
         /\ HasTouchWrites(StartedAndEnded(view, t1, t2), view)
              = << "hasTouch:YES", "hasTouch:NO" >>
         /\ ~StartedAndEnded(view, t1, t2).hasTouch[view]

\* two touches are assigned to one view, one has ended and the view still
\* has the other
C18_Witness ==
  \E view \in Views, t1 \in TouchIds, t2 \in TouchIds :
    /\ BothAssigned(view, t1, t2)
    /\ touchesForView(OneEnded(t1, Behaved, FALSE), view) = {t2}
    /\ OneEnded(t1, Behaved, FALSE).hasTouch[view]
    /\ ~BothEnded(t1, t2, Behaved, FALSE).hasTouch[view]

\* the views makeTouchResponder was called with for touch t, in order
OfferedTo(s, t) ==
  LET notes == SelectSeq(s.book, LAMBDA b : b.what = "makeTouchResponder" /\ b.touch = t)
  IN [ i \in 1 .. Len(notes) |-> notes[i].view ]

\* the views sent the captureTouch query
QueriedViews(s) == Range(Queried(s))

\* the answers to the touchStart offer: every view declines, or every view
\* accepts
AllOrNone == { {}, Views }

\* C19: captureTouch calls makeTouchResponder exactly once: with the raw
\* target when no view of the chain between target and starting point
\* captures, with a capturing view of the chain otherwise; only views of the
\* chain are sent the captureTouch query, never the starting point.
C19_CaptureAlwaysOffers ==
  \A t \in touches, startingPoint \in StartingPoints, shouldStack \in BOOLEAN :
    \A captures \in SUBSET Views, accepts \in AllOrNone :
      LET s == captureTouch(State, t, startingPoint, shouldStack, captures, accepts)
          chain == ChainViews(touch[t].targetView, startingPoint)
      IN /\ Len(OfferedTo(s, t)) = 1
         /\ captures \cap chain = {} => OfferedTo(s, t)[1] = touch[t].targetView
         /\ captures \cap chain /= {} => OfferedTo(s, t)[1] \in captures \cap chain
         /\ QueriedViews(s) \subseteq chain
         /\ startingPoint \notin QueriedViews(s)

\* a touch whose captureTouch from Root finds Mid capturing and offers it to
\* Mid, and finds nobody capturing and offers it to the target Leaf, while
\* Root says YES to captureTouch without being asked
C19_Witness ==
  \E t \in touches :
    /\ touch[t].targetView = "Leaf"
    /\ OfferedTo(captureTouch(State, t, "Root", FALSE, {"Root", "Mid"}, {}), t) = << "Mid" >>
    /\ OfferedTo(captureTouch(State, t, "Root", FALSE, {"Root"}, {}), t) = << "Leaf" >>
    /\ QueriedViews(captureTouch(State, t, "Root", FALSE, {"Root"}, {})) = {"Leaf", "Mid"}

\* the state with the touches at these page positions
Placed(s, page) == [ s EXCEPT !.data.page = page ]

\* v is the number num / den
Equals(v, num, den) == IsNumber(v) /\ v.num * den = num * v.den

\* n times the distance of touch t from the centroid of the touches ts
ScaledDistance(page, ts, t) ==
  Root2((page[t][1] * Cardinality(ts) - sumOfPage(Placed(State, page), ts, 1))
          * (page[t][1] * Cardinality(ts) - sumOfPage(Placed(State, page), ts, 1))
        + (page[t][2] * Cardinality(ts) - sumOfPage(Placed(State, page), ts, 2))
          * (page[t][2] * Cardinality(ts) - sumOfPage(Placed(State, page), ts, 2)))

RECURSIVE SumScaledDistance(_, _, _)
SumScaledDistance(page, ts, rest) ==
  IF rest = {} THEN 0
  ELSE LET t == CHOOSE x \in rest : TRUE
       IN ScaledDistance(page, ts, t) + SumScaledDistance(page, ts, rest \ {t})

\* C20: averagedTouchesForView returns zeros for a view without touches; for
\* a view with n >= 1 touches it returns touchCount n, the means of pageX and
\* pageY, and as d the mean distance of the touches from that centroid, a
\* number, 0 for one touch.
C20_AveragedTouches ==
  \A view \in Views, page \in Pages :
    LET r == averagedTouchesForView(Placed(State, page), view)
        ts == touchesForView(State, view)
        n == Cardinality(ts)
    IN IF n = 0
       THEN /\ r.touchCount = 0
            /\ Equals(r.x, 0, 1) /\ Equals(r.y, 0, 1) /\ Equals(r.d, 0, 1)
       ELSE /\ r.touchCount = n
            /\ Equals(r.x, sumOfPage(Placed(State, page), ts, 1), n)
            /\ Equals(r.y, sumOfPage(Placed(State, page), ts, 2), n)
            /\ IsNumber(r.d)
            /\ Equals(r.d, SumScaledDistance(page, ts, ts), n * n)
            /\ n = 1 => Equals(r.d, 0, 1)

(***************************************************************************)
(* SC.ScrollView: touch gestures (scroll.js, TOUCH SUPPORT).               *)
(*                                                                         *)
(* The lengths the view keeps are whole numbers of 1/Scale pixel; a        *)
(* product or quotient is cut off towards zero at that resolution, except  *)
(* where an operator says how it rounds (Nearest, Pull).  The              *)
(* edge resistance is computed in 1/Fine pixel.  Velocities are lengths    *)
(* per timer period of 10 ms.  Times are not kept: what a handler computes *)
(* from the clock is an input of the operation.                            *)
(***************************************************************************)
Scale == 1

Fine == 1000

\* bounds of the scroll view model: touches down on the view at once, and
\* touchStart calls in one behaviour
MaxFingers == 2

MaxGenerations == 3

\* maximumVerticalScrollOffset of the layouts of the model, in pixels
MaxOffsets == {0, 4}

\* pageY of a touch, in pixels: where it goes down and where it can move
StartY == 10

PageYs == {7, 10}

\* JavaScript number values of the private scroll offset: a length, NaN, or
\* the undefined of a field never written
Px(v) == [ kind |-> "number", v |-> v ]

NaNPx == [ kind |-> "NaN", v |-> 0 ]

NoPx == [ kind |-> "undefined", v |-> 0 ]

\* x || 0
OrZero(x) == IF x.kind = "number" THEN x.v ELSE 0

\* a + b for a JavaScript value a and a length b
PxPlus(a, b) == IF a.kind = "number" THEN Px(a.v + b) ELSE NaNPx

Abs(n) == IF n < 0 THEN -n ELSE n

Min(a, b) == IF a < b THEN a ELSE b

Max(a, b) == IF a > b THEN a ELSE b

\* n * num / den, cut off towards zero
Times(n, num, den) ==
  IF n >= 0 THEN (n * num) \div den ELSE -(((-n) * num) \div den)

\* n / den, to the nearest whole number
Nearest(n, den) ==
  IF n >= 0 THEN (2 * n + den) \div (2 * den) ELSE -((2 * (-n) + den) \div (2 * den))

\* a * b for two numbers in millionths, in millionths
MulMillionths(a, b) ==
  (a * (b \div 1000)) \div 1000 + (a * (b % 1000)) \div 1000000

\* Math.pow(perMille / 1000, k) for a whole k, in millionths
RECURSIVE PowWhole(_, _)
PowWhole(perMille, k) ==
  IF k = 0 THEN 1000000
  ELSE IF k % 2 = 1 THEN (PowWhole(perMille, k - 1) * perMille) \div 1000
  ELSE MulMillionths(PowWhole(perMille, k \div 2), PowWhole(perMille, k \div 2))

\* Math.pow(perMille / 1000, d / Fine) in millionths, between whole
\* exponents by a straight line
Pow(perMille, d) ==
  PowWhole(perMille, d \div Fine)
    - ((PowWhole(perMille, d \div Fine) - PowWhole(perMille, d \div Fine + 1))
         * (d % Fine)) \div Fine

\* _adjustForEdgeResistance with a plausible slip: the last line adds the
\* resistance to the offset itself instead of to the nearest bound
resist_unclamped(offset, maxOffset, resistanceCoefficient, asymptote, distanceFromEdge) ==
  offset
    + (IF offset < 0
       THEN (Pow(resistanceCoefficient, Abs(distanceFromEdge)) * asymptote)
              \div (1000000 \div Fine) - asymptote * Fine
       ELSE asymptote * Fine
              - (Pow(resistanceCoefficient, Abs(distanceFromEdge)) * asymptote)
                  \div (1000000 \div Fine))

\* the part of _adjustForEdgeResistance after distanceFromEdge is known
resist(offset, maxOffset, resistanceCoefficient, asymptote, distanceFromEdge) ==
  Min(Max(0, offset), maxOffset)
    + (IF offset < 0
       THEN (Pow(resistanceCoefficient, Abs(distanceFromEdge)) * asymptote)
              \div (1000000 \div Fine) - asymptote * Fine
       ELSE asymptote * Fine
              - (Pow(resistanceCoefficient, Abs(distanceFromEdge)) * asymptote)
                  \div (1000000 \div Fine))

\* _adjustForEdgeResistance(offset, maxOffset, resistanceCoefficient,
\* asymptote): the lengths in 1/Fine pixel, the coefficient in
\* thousandths, the asymptote in pixels
adjustForEdgeResistance(offset, maxOffset, resistanceCoefficient, asymptote) ==
  IF offset < 0 THEN resist(offset, maxOffset, resistanceCoefficient, asymptote, offset)
  ELSE IF offset > maxOffset
  THEN resist(offset, maxOffset, resistanceCoefficient, asymptote, maxOffset - offset)
  ELSE offset

\* lastEventTime of a gesture: 0 as set by beginTouchTracking, or the time
\* of an event or tick
NoEventYet == 0

EventTime == 1

\* evt.timeStamp - touch.lastEventTime in ms while lastEventTime is 0: the
\* whole time since 1970
Epoch == 1000000000

\* this.touch of a view that tracks no gesture (null), and touch.timeout
\* of a gesture without timer (undefined or null)
NoGesture == [ gesture |-> FALSE ]

NoHandle == 0

\* the state the scroll view operators transform.  Beside the variables,
\* what the operation has done so far:
\*   sets     the set("verticalScrollOffset", ...) calls it made
\*   drawn    the offsets it wrote into the layer's transform, in order
\*   calls    in order, the calls it made on the touch and on other views
\*   thrown   an exception left the handler
ScrollState ==
  [ view |-> scrollView,
    timeouts |-> timeouts,
    fingers |-> fingers,
    sets |-> 0,
    drawn |-> << >>,
    calls |-> << >>,
    thrown |-> FALSE ]

\* the view as constructed, with this layout
NewScrollView(maximum) ==
  [ touch |-> NoGesture,
    tracking |-> FALSE,
    dragging |-> FALSE,
    touchGeneration |-> 0,
    offset |-> NoPx,
    horizontalOffset |-> NoPx,
    maximumVerticalScrollOffset |-> maximum * Scale,
    maximumHorizontalScrollOffset |-> 0,
    observed |-> 0 ]

\* this.get('maximumVerticalScrollOffset')
maximumVerticalScrollOffset(s) == s.view.maximumVerticalScrollOffset

\* the setter of the verticalScrollOffset property: undefined is a read,
\* anything else is clamped (Math.min and Math.max keep NaN)
clamped(s, value) ==
  IF value.kind = "undefined" THEN s.view.offset
  ELSE IF value.kind = "NaN" THEN NaNPx
  ELSE Px(Max(0, Min(maximumVerticalScrollOffset(s), value.v)))

\* this.set("verticalScrollOffset", value): the setter, then the observers
setVerticalScrollOffset(s, value) ==
  [ s EXCEPT !.view.offset = clamped(s, value),
             !.view.observed = @ + 1,
             !.sets = @ + 1 ]

\* the pending deceleration timers
Pending(s) == DOMAIN s.timeouts.decelerate

\* setTimeout(function(){ self.decelerateAnimation() }, 10): a handle that
\* names no pending timer
NewHandle(s) == CHOOSE h \in 1 .. Cardinality(Pending(s)) + 1 : h \notin Pending(s)

setTimeout(s) ==
  [ s EXCEPT !.timeouts.decelerate =
               [ h \in Pending(s) \cup {NewHandle(s)} |->
                   IF h \in Pending(s) THEN s.timeouts.decelerate[h]
                   ELSE s.view.touchGeneration ],
             !.view.touch.timeout = NewHandle(s) ]

\* clearTimeout(handle)
clearTimeout(s, handle) ==
  [ s EXCEPT !.timeouts.decelerate =
               [ h \in Pending(s) \ {handle} |-> s.timeouts.decelerate[h] ] ]

\* the first lines of beginTouchTracking: a deceleration still running is
\* finished and its timer cleared
finishDeceleration(s) ==
  IF s.view.touch /= NoGesture /\ s.view.touch.timeout /= NoHandle
  THEN clearTimeout(setVerticalScrollOffset(s, s.view.offset), s.view.touch.timeout)
  ELSE s

\* the record beginTouchTracking stores in this.touch: the y parts, and of
\* the fields only those a handler reads.  scrollVelocityY is kept times
\* 10, the value startDecelerationAnimation makes of it.
NewGesture(s, t, pageY, verticalScrollOffset) ==
  [ startScrollOffset |-> verticalScrollOffset,
    lastScrollOffset |-> verticalScrollOffset,
    startTouchOffset |-> pageY * Scale,
    decelerationVelocity |-> 0,
    touch |-> t,
    lastEventTime |-> NoEventYet,
    scrollVelocityY |-> 0,
    maximumVerticalScroll |-> maximumVerticalScrollOffset(s),
    tracking |-> TRUE,
    dragging |-> FALSE,
    firstDrag |-> FALSE,
    timeout |-> NoHandle ]

\* the rest of beginTouchTracking; verticalScrollOffset was read on entry
track(s, t, pageY, verticalScrollOffset) ==
  [ s EXCEPT !.view.touch = NewGesture(s, t, pageY, verticalScrollOffset),
             !.view.tracking = TRUE,
             !.view.dragging = FALSE ]

beginTouchTracking(s, t, pageY) ==
  track(finishDeceleration(s), t, pageY, OrZero(s.view.offset))

\* this.invokeLater(this.beginTouchesInContent, 150, generation): one more
\* call waits, beside those of older generations
invokeLater(s) == [ s EXCEPT !.timeouts.later = @ \cup {s.view.touchGeneration} ]

\* the observers of verticalScrollOffset count their calls per gesture
newGesture(s) == [ s EXCEPT !.view.observed = 0 ]

\* touchStart(touch)
scrollTouchStart(s, t, pageY) ==
  newGesture(invokeLater(beginTouchTracking([ s EXCEPT !.view.touchGeneration = @ + 1 ],
                                            t, pageY)))

\* Math.pow(0.950, t / 10) in thousandths, for the delays t of the model:
\* 1 ms after an event, 10 ms for a timer on time, and the time since 1970
Decay(t) ==
  CASE t = 1 -> 995
    [] t = 10 -> 950
    [] OTHER -> 0

\* the delays a tick can measure: Math.max(now - touch.lastEventTime, 1)
TickDelay(s, late) ==
  IF s.view.touch.lastEventTime = NoEventYet THEN Epoch ELSE late

\* distance * touch.decelerationFromEdge (or accelerationFromEdge), the
\* factor in hundredths.  The product is positive whenever the distance is:
\* at the resolution of the view's lengths it is at least one unit, so
\* that the content beyond an edge comes back to it as in the code.
Pull(distance, perCent) == (distance * perCent + 99) \div 100

\* "update velocity" of decelerateAnimation: the decay, then the pull of
\* the edge the content is beyond
pulled(velocity, newY, maxOffset, decelerationFromEdge, accelerationFromEdge) ==
  IF newY.kind /= "number" THEN velocity
  ELSE IF newY.v < 0
  THEN IF velocity < 0 THEN velocity + Pull(-newY.v, decelerationFromEdge)
       ELSE Pull(-newY.v, accelerationFromEdge)
  ELSE IF newY.v > maxOffset
  THEN IF velocity > 0 THEN velocity - Pull(newY.v - maxOffset, decelerationFromEdge)
       ELSE -Pull(newY.v - maxOffset, accelerationFromEdge)
  ELSE velocity

\* "if we ain't got no velocity... then we must be finished"
finished(velocity, newY, maxOffset) ==
  /\ Abs(velocity) < 1 * Scale
  /\ newY.kind = "number"
  /\ newY.v > 0
  /\ newY.v < maxOffset

\* the end of a deceleration: the handle is dropped and the offset set the
\* observable way
finish(s) ==
  setVerticalScrollOffset([ s EXCEPT !.view.touch.timeout = NoHandle ], s.view.offset)

\* "next round"
nextRound(s) == setTimeout([ s EXCEPT !.view.touch.lastEventTime = EventTime ])

\* decelerateAnimation after the scroll was updated to newY and the
\* velocity to velocity
decelerated(s, velocity, newY, maxOffset) ==
  IF finished(velocity, newY, maxOffset)
  THEN finish([ s EXCEPT !.view.touch.decelerationVelocity = velocity ])
  ELSE nextRound([ s EXCEPT !.view.touch.decelerationVelocity = velocity ])

\* decelerateAnimation from "update scroll" on
moveTo(s, newY, t) ==
  decelerated([ s EXCEPT !.view.offset = newY, !.drawn = Append(@, newY) ],
              pulled(Times(s.view.touch.decelerationVelocity, Decay(t), 1000), newY,
                     maximumVerticalScrollOffset(s), 5, 8),
              newY, maximumVerticalScrollOffset(s))

\* decelerateAnimation(); late is the delay the clock shows when the
\* gesture has an event time.  Without gesture the first line throws.
decelerateAnimation(s, late) ==
  IF s.view.touch = NoGesture THEN [ s EXCEPT !.thrown = TRUE ]
  ELSE moveTo(s, PxPlus(s.view.offset, s.view.touch.decelerationVelocity),
              TickDelay(s, late))

\* startDecelerationAnimation(evt): the first round runs at once
startDecelerationAnimation(s) ==
  decelerateAnimation([ s EXCEPT !.view.touch.decelerationVelocity =
                                   s.view.touch.scrollVelocityY ], 1)

\* touchCancelled(touch)
scrollTouchCancelled(s) ==
  [ s EXCEPT !.view.tracking = FALSE, !.view.dragging = FALSE,
             !.view.touch = NoGesture ]

\* evt.timeStamp - touch.lastEventTime of a drag sample that comes dt ms
\* after the last event
SampleDelay(s, dt) ==
  IF s.view.touch.lastEventTime = NoEventYet THEN Epoch ELSE dt

\* the velocity sample of touchesDragged, taken when 10 ms have passed
sampled(s, delay) ==
  IF delay >= 10
  THEN [ s EXCEPT !.view.touch.scrollVelocityY =
                    Times((OrZero(s.view.offset) - s.view.touch.lastScrollOffset) * 10,
                          1, Max(1, delay)),
                  !.view.touch.lastScrollOffset = OrZero(s.view.offset),
                  !.view.touch.lastEventTime = EventTime ]
  ELSE s

\* the edge resistance of a gesture, with touch.resistanceCoefficientY and
\* touch.resistanceAsymptoteY, at the resolution of the view's lengths
resisted(offsetY, maxOffset) ==
  Nearest(adjustForEdgeResistance(offsetY * (Fine \div Scale), maxOffset * (Fine \div Scale),
                                  998, 320),
          Fine \div Scale)

\* "update immediately first": the private offset and the transform
scrolled(s, offsetY, delay) ==
  sampled([ s EXCEPT !.view.offset =
                       Px(resisted(offsetY, s.view.touch.maximumVerticalScroll)),
                     !.drawn =
                       Append(@, Px(resisted(offsetY, s.view.touch.maximumVerticalScroll))) ],
          delay)

\* touchesDragged with a plausible slip: the return of the first drag is
\* missing, so the sample that arms the drag moves the content as well
dragged_noReturn(s, deltaY, dt) ==
  IF ~s.view.touch.dragging /\ Abs(deltaY) <= 1 * Scale THEN s
  ELSE scrolled([ s EXCEPT !.view.touch.dragging = TRUE ],
                s.view.touch.startScrollOffset - deltaY, SampleDelay(s, dt))

\* touchesDragged of a gesture, deltaY being known
dragged(s, deltaY, dt) ==
  IF ~s.view.touch.dragging
  THEN IF Abs(deltaY) > 1 * Scale
       THEN [ s EXCEPT !.view.touch.dragging = TRUE, !.view.touch.firstDrag = FALSE ]
       ELSE s
  ELSE scrolled(s, s.view.touch.startScrollOffset - deltaY, SampleDelay(s, dt))

\* touchesDragged(evt, touches) with evt.pageY at pageY, dt ms after the
\* last event; without gesture the second line throws
touchesDragged(s, pageY, dt) ==
  IF s.view.touch = NoGesture THEN [ s EXCEPT !.thrown = TRUE ]
  ELSE dragged(s, pageY * Scale - s.view.touch.startTouchOffset, dt)

\* what the capture of a touch from the scroll view down can end in:
\*   Kept      no view took the touch; the offer of touchStart comes up to
\*             the scroll view, which is the responder already: the pane
\*             returns it without calling its touchStart again
\*             (renderer.js, makeTouchResponder) and nothing changes
\*   Taken     a view took it; the scroll view hears nothing
\*   Replaced  a view took it and the scroll view is sent touchCancelled
Kept == "kept"

Taken == "taken"

Replaced == "replaced"

Outcomes == {Kept, Taken, Replaced}

Content == "content"

ScrollView == "scrollView"

Called(s, action, view, t) ==
  [ s EXCEPT !.calls = Append(@, [ action |-> action, view |-> view, touch |-> t ]) ]

\* a touch the root responder has on its books for the view:
\*   down     the scroll view is its responder
\*   stacked  a content view is, stacked on the scroll view
\*   up       it has ended; the gesture record can still name it
Down == "down"

Stacked == "stacked"

Up == "up"

\* a content view has become the responder of the touch
captured(s, t) ==
  IF s.fingers[t].state = Down THEN [ s EXCEPT !.fingers[t].state = Stacked ] ELSE s

\* touch.captureTouch(this, shouldStack) as the scroll view sees it
recaptured(s, t, pageY, outcome) ==
  CASE outcome = Kept -> s
    [] outcome = Taken -> captured(Called(s, "touchStart", Content, t), t)
    [] OTHER -> scrollTouchCancelled(Called(s, "touchStart", Content, t))

\* the tap branch with a plausible slip: the touch is captured again, but
\* touchEnd is not passed on to its new responder
tapped_noTouchEnd(s, t, pageY, outcome) ==
  recaptured(Called(s, "captureTouch", ScrollView, t), t, pageY, outcome)

\* the tap branch of touchEnd
tapped(s, t, pageY, outcome) ==
  IF outcome = Kept THEN recaptured(Called(s, "captureTouch", ScrollView, t), t, pageY, outcome)
  ELSE Called(recaptured(Called(s, "captureTouch", ScrollView, t), t, pageY, outcome),
              "touchEnd", Content, t)

\* the drag branch of touchEnd
released(s) ==
  startDecelerationAnimation([ s EXCEPT !.view.touch.dragging = FALSE,
                                        !.view.touch.lastEventTime = EventTime ])

\* touchEnd once both tracking flags are down
ended(s, t, pageY, startY, outcome) ==
  IF s.view.touch.dragging \/ Abs(pageY - startY) > 2
  THEN released([ s EXCEPT !.view.dragging = FALSE ])
  ELSE tapped([ s EXCEPT !.view.dragging = FALSE ], t, pageY, outcome)

\* touchEnd(touch); without gesture the third line throws
scrollTouchEnd(s, t, pageY, startY, outcome) ==
  IF s.view.touch = NoGesture
  THEN [ s EXCEPT !.view.tracking = FALSE, !.thrown = TRUE ]
  ELSE ended([ s EXCEPT !.view.tracking = FALSE, !.view.touch.tracking = FALSE ],
             t, pageY, startY, outcome)

\* beginTouchesInContent with a plausible slip: the generation of the call
\* is not compared with the view's
beginTouchesInContent_anyGeneration(s, gen, pageY, outcome) ==
  IF s.view.touch /= NoGesture /\ s.view.touch.tracking /\ ~s.view.touch.dragging
  THEN recaptured(Called(s, "captureTouch", ScrollView, s.view.touch.touch),
                  s.view.touch.touch, pageY, outcome)
  ELSE s

\* beginTouchesInContent(gen), 150 ms after the touchStart of generation gen
beginTouchesInContent(s, gen, pageY, outcome) ==
  IF gen /= s.view.touchGeneration THEN s
  ELSE IF s.view.touch /= NoGesture /\ s.view.touch.tracking /\ ~s.view.touch.dragging
  THEN recaptured(Called(s, "captureTouch", ScrollView, s.view.touch.touch),
                  s.view.touch.touch, pageY, outcome)
  ELSE s

(***************************************************************************)
(* SC.ScrollView: the events the root responder and the timers deliver     *)
(***************************************************************************)
NewFinger == [ pageY |-> StartY, startY |-> StartY, state |-> Down ]

Fingers(s) == DOMAIN s.fingers

Touching(s) == { f \in Fingers(s) : s.fingers[f].state /= Up }

\* the ended touches nothing refers to any more are forgotten
Referred(s) ==
  IF s.view.touch = NoGesture THEN Touching(s)
  ELSE Touching(s) \cup {s.view.touch.touch}

forgotten(s) ==
  [ s EXCEPT !.fingers = [ f \in Fingers(s) \cap Referred(s) |-> s.fingers[f] ] ]

\* a touch goes down: SC.Touch.create with the next identifier
NextFinger(s) == CHOOSE f \in 1 .. Cardinality(Fingers(s)) + 1 : f \notin Fingers(s)

landed(s) ==
  [ s EXCEPT !.fingers = [ f \in Fingers(s) \cup {NextFinger(s)} |->
                             IF f \in Fingers(s) THEN s.fingers[f] ELSE NewFinger ] ]

\* the touch has moved to pageY
movedTo(s, f, pageY) == [ s EXCEPT !.fingers[f].pageY = pageY ]

lifted(s, f) == [ s EXCEPT !.fingers[f].state = Up ]

\* the timer fires and is no longer pending
fired(s, handle) == clearTimeout(s, handle)

\* an exception leaves the handler: what it wrote before stays, the event
\* is over
CommitScroll(s) ==
  /\ scrollView' = s.view
  /\ timeouts' = s.timeouts
  /\ fingers' = s.fingers
  /\ UNCHANGED << rootVars, paneVars, fanVars >>

InitScroll ==
  /\ \E maximum \in MaxOffsets : scrollView = NewScrollView(maximum)
  /\ timeouts = [ decelerate |-> << >>, later |-> {} ]
  /\ fingers = << >>
  /\ RootUnused
  /\ PanesUnused
  /\ FanOutUnused

\* touchstart on the content: the scroll view captures the touch and gets
\* touchStart
ScrollTouchStart ==
  /\ Cardinality(Touching(ScrollState)) < MaxFingers
  /\ scrollView.touchGeneration < MaxGenerations
  /\ CommitScroll(forgotten(scrollTouchStart(landed(ScrollState),
                                             NextFinger(ScrollState), StartY)))

\* touchmove of a touch the scroll view is the responder of
ScrollTouchesDragged ==
  \E f \in Touching(ScrollState), pageY \in PageYs, dt \in {10} :
    /\ fingers[f].state = Down
    /\ CommitScroll(touchesDragged(movedTo(ScrollState, f, pageY), pageY, dt))

\* touchend of a touch: touchEnd for its responder, touchCancelled for the
\* scroll view under a stacked one
ScrollTouchEnd ==
  \E f \in Touching(ScrollState), outcome \in Outcomes :
    /\ fingers[f].state = Stacked => outcome = Taken
    /\ CommitScroll(forgotten(
         IF fingers[f].state = Stacked
         THEN scrollTouchCancelled(lifted(ScrollState, f))
         ELSE scrollTouchEnd(lifted(ScrollState, f), f, fingers[f].pageY,
                             fingers[f].startY, outcome)))

\* touchcancel of a touch
ScrollTouchCancelled ==
  \E f \in Touching(ScrollState) :
    CommitScroll(forgotten(scrollTouchCancelled(lifted(ScrollState, f))))

\* a deceleration timer fires, on time
Tick ==
  \E handle \in Pending(ScrollState) :
    CommitScroll(decelerateAnimation(fired(ScrollState, handle), 10))

\* invokeLater's 150 ms are over for a touchStart
BeginTouchesInContent ==
  \E gen \in timeouts.later, outcome \in {Kept, Taken} :
    /\ CommitScroll(forgotten(
         beginTouchesInContent([ ScrollState EXCEPT !.timeouts.later = @ \ {gen} ], gen,
                               IF scrollView.touch = NoGesture THEN StartY
                               ELSE fingers[scrollView.touch.touch].pageY,
                               outcome)))

NextScroll ==
  \/ ScrollTouchStart
  \/ ScrollTouchesDragged
  \/ ScrollTouchEnd
  \/ ScrollTouchCancelled
  \/ Tick
  \/ BeginTouchesInContent

SpecScroll == InitScroll /\ [][NextScroll]_vars

\* the behaviours of the scroll view with at most MaxRestarts calls of
\* touchStart: enough for a gesture that follows another one, and small
\* enough to be explored with a third finger
MaxRestarts == 2

NextGesture == NextScroll /\ scrollView'.touchGeneration <= MaxRestarts

SpecGesture == InitScroll /\ [][NextGesture]_vars

(***************************************************************************)
(* SC.ScrollView: properties of the touch gestures                         *)
(***************************************************************************)
\* the touch f is the scroll view's and its touchEnd will start a
\* deceleration
Releases(f) ==
  /\ fingers[f].state = Down
  /\ scrollView.touch /= NoGesture
  /\ scrollView.touch.dragging \/ Abs(fingers[f].pageY - fingers[f].startY) > 2

\* touchEnd(f) as the root responder calls it
AfterTouchEnd(f, outcome) ==
  scrollTouchEnd(lifted(ScrollState, f), f, fingers[f].pageY, fingers[f].startY, outcome)

\* the sampled velocity is 0 and the content lies within the closed range
\* of the scroll offsets
AtRestInRange ==
  /\ scrollView.touch.scrollVelocityY = 0
  /\ scrollView.offset.kind = "number"
  /\ scrollView.offset.v >= 0
  /\ scrollView.offset.v <= scrollView.maximumVerticalScrollOffset

\* the run is over: offset committed, no handle kept, no tick scheduled
Idle(s) ==
  /\ s.sets = 1
  /\ s.view.touch.timeout = NoHandle
  /\ Pending(s) = DOMAIN timeouts.decelerate

\* C21: a deceleration that starts with velocity 0 at an offset within
\* [0, maximumVerticalScrollOffset], the ends included, is over with its
\* first round: the offset is committed, the handle cleared, no tick
\* scheduled.
C21_RestTerminatesAtOnce ==
  \A f \in DOMAIN fingers :
    Releases(f) /\ AtRestInRange => Idle(AfterTouchEnd(f, Taken))

\* the gesture of the last touchStart is tracking or dragging
Tracking == scrollView.touch /= NoGesture /\ (scrollView.touch.tracking \/ scrollView.touch.dragging)

\* the pending deceleration ticks that were scheduled before the last
\* touchStart; a pending tick executes when its 10 ms are over
StaleTicks ==
  { h \in DOMAIN timeouts.decelerate : timeouts.decelerate[h] < scrollView.touchGeneration }

\* C22: tracking wins over a deceleration in flight: while the gesture of
\* the last touchStart is tracking or dragging, no deceleration tick that
\* an earlier gesture scheduled is left to execute.
C22_TrackingWins == Tracking => StaleTicks = {}

\* a deceleration tick as the timer runs it
AfterTick(handle) == decelerateAnimation(fired(ScrollState, handle), 10)

\* the round was the last of its run: the offset is set the observable
\* way once, and no further tick is scheduled
FinalRound(s, handle) ==
  /\ s.sets = 1
  /\ s.view.touch.timeout = NoHandle
  /\ Pending(s) = DOMAIN timeouts.decelerate \ {handle}

\* a round that only writes the private offset and the transform
FastRound(s) == s.sets = 0 /\ (s.thrown \/ Len(s.drawn) = 1)

\* C23: within one gesture verticalScrollOffset is set the observable way
\* only by the round that ends a deceleration or by the touchStart that
\* supersedes one; drag samples and the other rounds write only the
\* private offset and the transform; so the observers of
\* verticalScrollOffset run at most once in a gesture.
C23_OneCommitPerGesture ==
  /\ \A pageY \in PageYs, dt \in {5, 10} :
       touchesDragged(ScrollState, pageY, dt).sets = 0
  /\ \A handle \in DOMAIN timeouts.decelerate :
       FinalRound(AfterTick(handle), handle) \/ FastRound(AfterTick(handle))
  /\ scrollView.observed <= 1

\* positions of a drag sample around the start of the touch, in pixels
SamplePageYs == {7, 9, 10, 11, 12}

\* the displacement of a sample at pageY from the start of the gesture
Displacement(pageY) == Abs(pageY * Scale - scrollView.touch.startTouchOffset)

\* the operation left the view, the timers and the layer as they were
Untouched(s) ==
  /\ s.view = scrollView
  /\ s.timeouts = timeouts
  /\ s.drawn = << >>
  /\ s.sets = 0

\* the operation set touch.dragging and nothing else
ArmedOnly(s) ==
  /\ s.view = [ scrollView EXCEPT !.touch.dragging = TRUE ]
  /\ s.timeouts = timeouts
  /\ s.drawn = << >>
  /\ s.sets = 0

\* the operation moved the content: private offset and transform written
Moved(s) == Len(s.drawn) = 1 /\ s.view.offset = s.drawn[1] /\ s.view.touch.dragging

\* C24: while a touch of the view is down, in a gesture that is not
\* dragging yet, a sample within the threshold of the start changes
\* nothing, and the first sample beyond it sets dragging and leaves the
\* scroll offset, the transform and the sampled velocity as they were;
\* only the samples after that one move the content.
C24_ThresholdSampleOnlyArms ==
  (scrollView.touch /= NoGesture /\ \E f \in DOMAIN fingers : fingers[f].state = Down) =>
    \A pageY \in SamplePageYs, dt \in {5, 10} :
      IF scrollView.touch.dragging
      THEN Moved(touchesDragged(ScrollState, pageY, dt))
      ELSE IF Displacement(pageY) > 1 * Scale
      THEN ArmedOnly(touchesDragged(ScrollState, pageY, dt))
      ELSE Untouched(touchesDragged(ScrollState, pageY, dt))

\* a drag was armed and the content has not moved since the view was made
C24_Witness ==
  /\ scrollView.touch /= NoGesture
  /\ scrollView.touch.dragging
  /\ scrollView.offset = NoPx

\* the touch f is the scroll view's and its touchEnd will count as a tap
Taps(f) ==
  /\ fingers[f].state = Down
  /\ scrollView.touch /= NoGesture
  /\ ~scrollView.touch.dragging
  /\ Abs(fingers[f].pageY - fingers[f].startY) <= 2

\* no round of a deceleration ran and no tick was scheduled
NoDeceleration(s) ==
  /\ Pending(s) \subseteq DOMAIN timeouts.decelerate
  /\ s.drawn = << >>

\* the first call is the capture of the touch from the scroll view down
Recaptures(s, f) ==
  /\ Len(s.calls) >= 1
  /\ s.calls[1] = [ action |-> "captureTouch", view |-> ScrollView, touch |-> f ]

\* touchEnd is passed on, as the last call, exactly when the capture made
\* another view the responder
PassesOn(s, f, outcome) ==
  IF outcome = Kept THEN \A i \in DOMAIN s.calls : s.calls[i].action /= "touchEnd"
  ELSE s.calls[Len(s.calls)] = [ action |-> "touchEnd", view |-> Content, touch |-> f ]

\* C25: a touch that lifts within the tap tolerance of its start while the
\* gesture is not dragging starts no deceleration and schedules no timer;
\* touchEnd captures the touch again below the scroll view and passes
\* touchEnd on to the responder that results when it is another view.
C25_TapIsPassedOn ==
  \A f \in DOMAIN fingers, outcome \in Outcomes :
    Taps(f) =>
      /\ ~AfterTouchEnd(f, outcome).thrown
      /\ NoDeceleration(AfterTouchEnd(f, outcome))
      /\ Recaptures(AfterTouchEnd(f, outcome), f)
      /\ PassesOn(AfterTouchEnd(f, outcome), f, outcome)

\* a tap has ended: the gesture stopped tracking without its touchEnd
\* having stamped an event time, and no touch is left on the view
C25_Witness ==
  /\ scrollView.touch /= NoGesture
  /\ ~scrollView.touch.tracking
  /\ scrollView.touch.lastEventTime = NoEventYet
  /\ \A f \in DOMAIN fingers : fingers[f].state = Up

(***************************************************************************)
(* SC.ScrollView: _adjustForEdgeResistance on its own.  The scroll view    *)
(* variable holds one call: the offset asked for and the maximum offset,   *)
(* in pixels, and what the function returned, in 1/Fine pixel.             *)
(***************************************************************************)
\* the offsets asked for and the maximum offsets, in pixels
Requests == -60 .. 160

Maxima == {0, 100}

\* touch.resistanceCoefficientY in thousandths and
\* touch.resistanceAsymptoteY in pixels
ResistanceCoefficientY == 998

ResistanceAsymptoteY == 320

\* the function at a whole number of pixels
Adjusted(request, maxOffset) ==
  adjustForEdgeResistance(request * Fine, maxOffset * Fine, ResistanceCoefficientY,
                          ResistanceAsymptoteY)

InitResistance ==
  /\ \E request \in Requests, maxOffset \in Maxima :
       scrollView = [ request |-> request, maxOffset |-> maxOffset, adjusted |-> NoPx ]
  /\ timeouts = Unused
  /\ fingers = Unused
  /\ RootUnused
  /\ PanesUnused
  /\ FanOutUnused

AdjustForEdgeResistance ==
  /\ scrollView.adjusted = NoPx
  /\ scrollView' = [ scrollView EXCEPT
                       !.adjusted = Px(Adjusted(scrollView.request, scrollView.maxOffset)) ]
  /\ UNCHANGED << timeouts, fingers, rootVars, paneVars, fanVars >>

NextResistance == AdjustForEdgeResistance

SpecResistance == InitResistance /\ [][NextResistance]_vars

\* the result for an offset below 0
BelowZero(request, result) ==
  /\ result > request * Fine
  /\ result < 0
  /\ result > -ResistanceAsymptoteY * Fine
  /\ Adjusted(request - 1, scrollView.maxOffset) < result

\* the result for an offset above the maximum
AboveMaximum(request, maxOffset, result) ==
  /\ result > maxOffset * Fine
  /\ result < request * Fine
  /\ result < (maxOffset + ResistanceAsymptoteY) * Fine
  /\ Adjusted(request + 1, maxOffset) > result

\* C26: _adjustForEdgeResistance returns an offset within [0, maxOffset]
\* as it is; for an offset below 0 it returns a value strictly between the
\* offset and 0 and above -asymptote, for one above maxOffset a value
\* strictly between maxOffset and the offset and below maxOffset +
\* asymptote; and the further the offset is beyond the edge, the further
\* is the result.
C26_EdgeResistance ==
  scrollView.adjusted /= NoPx =>
    IF scrollView.request < 0
    THEN BelowZero(scrollView.request, scrollView.adjusted.v)
    ELSE IF scrollView.request > scrollView.maxOffset
    THEN AboveMaximum(scrollView.request, scrollView.maxOffset, scrollView.adjusted.v)
    ELSE scrollView.adjusted.v = scrollView.request * Fine

\* the function has answered for -50 with the maximum at 100
C26_Witness ==
  /\ scrollView.request = -50
  /\ scrollView.maxOffset = 100
  /\ scrollView.adjusted /= NoPx

(***************************************************************************)
(* SC.ScrollView: scrolling by lines (scroll.js, SCROLLING METHODS).  The  *)
(* offsets are whole pixels.                                               *)
(***************************************************************************)
\* the number of lines one call can ask for
MaxLines == 2

\* the maximum offsets of the layouts of the model, per direction
LineMaxima == {0, 50, 70}

\* the offsets scrollTo is asked for and the amounts scrollBy is asked for
Places == {0, 30, 90}

Amounts == {-30, 0, 10}

\* verticalLineScroll and horizontalLineScroll
verticalLineScroll == 20

horizontalLineScroll == 20

\* null, for a direction scrollTo is to leave alone
None == NoPx

\* this.set('horizontalScrollOffset', value)
setHorizontalScrollOffset(s, value) ==
  [ s EXCEPT !.view.horizontalOffset =
               Px(Max(0, Min(s.view.maximumHorizontalScrollOffset, value))) ]

\* the x half of scrollTo
scrollToX(s, x) ==
  IF x.kind = "number"
  THEN setHorizontalScrollOffset(s, Max(0, Min(s.view.maximumHorizontalScrollOffset, x.v)))
  ELSE s

\* the y half of scrollTo
scrollToY(s, y) ==
  IF y.kind = "number"
  THEN setVerticalScrollOffset(s, Px(Max(0, Min(maximumVerticalScrollOffset(s), y.v))))
  ELSE s

\* scrollTo(x, y)
scrollTo(s, x, y) == scrollToY(scrollToX(s, x), y)

\* scrollBy(x, y): "if null, undefined, or 0, pass null; otherwise just add
\* current offset"
scrollBy(s, x, y) ==
  scrollTo(s,
           IF x /= 0 THEN Px(OrZero(s.view.horizontalOffset) + x) ELSE None,
           IF y /= 0 THEN Px(OrZero(s.view.offset) + y) ELSE None)

scrollDownLine(s, lines) == scrollBy(s, 0, verticalLineScroll * lines)

scrollUpLine(s, lines) == scrollBy(s, 0, 0 - verticalLineScroll * lines)

scrollRightLine(s, lines) == scrollTo(s, Px(horizontalLineScroll * lines), None)

scrollLeftLine(s, lines) == scrollTo(s, Px(0 - horizontalLineScroll * lines), None)

\* the state the scrolling methods transform
LineState == [ view |-> scrollView, sets |-> 0 ]

\* the count of the observers' calls belongs to the gestures and is not
\* kept here
CommitLines(s) ==
  /\ scrollView' = [ s.view EXCEPT !.observed = 0 ]
  /\ UNCHANGED << timeouts, fingers, rootVars, paneVars, fanVars >>

InitLines ==
  /\ \E horizontal \in LineMaxima, vertical \in LineMaxima :
       scrollView = [ NewScrollView(vertical) EXCEPT
                        !.maximumHorizontalScrollOffset = horizontal ]
  /\ timeouts = Unused
  /\ fingers = Unused
  /\ RootUnused
  /\ PanesUnused
  /\ FanOutUnused

ScrollTo ==
  \E x \in Places \cup {-1}, y \in Places \cup {-1} :
    CommitLines(scrollTo(LineState, IF x = -1 THEN None ELSE Px(x),
                         IF y = -1 THEN None ELSE Px(y)))

ScrollBy == \E x \in Amounts, y \in Amounts : CommitLines(scrollBy(LineState, x, y))

ScrollDownLine == \E lines \in 1 .. MaxLines : CommitLines(scrollDownLine(LineState, lines))

ScrollUpLine == \E lines \in 1 .. MaxLines : CommitLines(scrollUpLine(LineState, lines))

ScrollRightLine == \E lines \in 1 .. MaxLines : CommitLines(scrollRightLine(LineState, lines))

ScrollLeftLine == \E lines \in 1 .. MaxLines : CommitLines(scrollLeftLine(LineState, lines))

NextLines ==
  \/ ScrollTo
  \/ ScrollBy
  \/ ScrollDownLine
  \/ ScrollUpLine
  \/ ScrollRightLine
  \/ ScrollLeftLine

SpecLines == InitLines /\ [][NextLines]_vars

\* this.get('horizontalScrollOffset') and this.get('verticalScrollOffset')
Horizontal(view) == OrZero(view.horizontalOffset)

Vertical(view) == OrZero(view.offset)

\* C29: scrollRightLine(n) moves the horizontal offset right by n lines
\* from where it is and scrollLeftLine(n) left by n lines, both kept within
\* [0, maximumHorizontalScrollOffset], as scrollDownLine and scrollUpLine
\* do for the vertical offset; so k calls of scrollRightLine() from 0 end
\* at min(k * horizontalLineScroll, maximum).
C29_LinesAreRelative ==
  \A lines \in 1 .. MaxLines :
    /\ Horizontal(scrollRightLine(LineState, lines).view)
         = Min(Horizontal(scrollView) + horizontalLineScroll * lines,
               scrollView.maximumHorizontalScrollOffset)
    /\ Horizontal(scrollLeftLine(LineState, lines).view)
         = Max(Horizontal(scrollView) - horizontalLineScroll * lines, 0)
    /\ Vertical(scrollDownLine(LineState, lines).view)
         = Min(Vertical(scrollView) + verticalLineScroll * lines,
               scrollView.maximumVerticalScrollOffset)
    /\ Vertical(scrollUpLine(LineState, lines).view)
         = Max(Vertical(scrollView) - verticalLineScroll * lines, 0)

(***************************************************************************)
(* SC.RootResponder: main pane and key pane (renderer.js, MAIN ROOT VIEW   *)
(* and KEY ROOT VIEW).  keyPanes holds the responder's keyPane,            *)
(* previousKeyPanes and mainPane; paneFlags holds what the panes answer    *)
(* for acceptsKeyPane and isPaneAttached, which the panes change on their  *)
(* own.                                                                    *)
(***************************************************************************)
Panes == {"menu", "palette", "main"}

\* the length previousKeyPanes can reach in the model
MaxStack == 2

\* the state the pane operators transform; calls are the notifications
\* sent to panes, in order
PaneState ==
  [ keyPane |-> keyPanes.keyPane,
    previousKeyPanes |-> keyPanes.previousKeyPanes,
    mainPane |-> keyPanes.mainPane,
    acceptsKeyPane |-> paneFlags.acceptsKeyPane,
    isPaneAttached |-> paneFlags.isPaneAttached,
    calls |-> << >> ]

Told(s, method, pane, other) ==
  IF pane = Null THEN s
  ELSE [ s EXCEPT !.calls = Append(@, [ method |-> method, pane |-> pane, other |-> other ]) ]

\* candidate.get('isPaneAttached') && candidate.get('acceptsKeyPane')
Qualifies(s, candidate) ==
  candidate \in s.isPaneAttached /\ candidate \in s.acceptsKeyPane

\* the while loop of makeKeyPane with a plausible slip: a candidate is
\* taken when it accepts key pane, attached or not
RECURSIVE popCandidates_detached(_)
popCandidates_detached(s) ==
  IF Len(s.previousKeyPanes) = 0 THEN [ s |-> s, newKeyPane |-> Null ]
  ELSE IF s.previousKeyPanes[Len(s.previousKeyPanes)] \in s.acceptsKeyPane
  THEN [ s |-> [ s EXCEPT !.previousKeyPanes = SubSeq(@, 1, Len(@) - 1) ],
         newKeyPane |-> s.previousKeyPanes[Len(s.previousKeyPanes)] ]
  ELSE popCandidates_detached([ s EXCEPT !.previousKeyPanes = SubSeq(@, 1, Len(@) - 1) ])

\* the while loop of makeKeyPane: candidates are popped until one
\* qualifies
RECURSIVE popCandidates(_)
popCandidates(s) ==
  IF Len(s.previousKeyPanes) = 0 THEN [ s |-> s, newKeyPane |-> Null ]
  ELSE IF Qualifies(s, s.previousKeyPanes[Len(s.previousKeyPanes)])
  THEN [ s |-> [ s EXCEPT !.previousKeyPanes = SubSeq(@, 1, Len(@) - 1) ],
         newKeyPane |-> s.previousKeyPanes[Len(s.previousKeyPanes)] ]
  ELSE popCandidates([ s EXCEPT !.previousKeyPanes = SubSeq(@, 1, Len(@) - 1) ])

\* "Otherwise, make the main pane the key pane (if it accepts it)"
orMainPane(s, newKeyPane) ==
  IF newKeyPane /= Null THEN newKeyPane
  ELSE IF s.mainPane /= Null /\ s.mainPane \in s.acceptsKeyPane THEN s.mainPane
  ELSE Null

\* the notifications around this.set('keyPane', newKeyPane)
keyPaneSet(s, previousKeyPane, newKeyPane) ==
  Told(Told([ Told(Told(s, "willLoseKeyPaneTo", previousKeyPane, newKeyPane),
                               "willBecomeKeyPaneFrom", newKeyPane, previousKeyPane)
                        EXCEPT !.keyPane = newKeyPane ],
                    "didBecomeKeyPaneFrom", newKeyPane, previousKeyPane),
           "didLoseKeyPaneTo", previousKeyPane, newKeyPane)

\* the end of makeKeyPane, from "If we found an appropriate candidate"
changeKeyPane(s, previousKeyPane, newKeyPane) ==
  keyPaneSet(s, previousKeyPane, orMainPane(s, newKeyPane))

\* previousKeyPanes.push(previousKeyPane), if there is a key pane
pushKeyPane(s) ==
  IF s.keyPane /= Null THEN [ s EXCEPT !.previousKeyPanes = Append(@, s.keyPane) ] ELSE s

\* makeKeyPane(pane)
makeKeyPane(s, pane) ==
  IF pane /= Null
  THEN IF pane \notin s.acceptsKeyPane THEN s
       ELSE IF s.keyPane = pane THEN s
       ELSE changeKeyPane(pushKeyPane(s), s.keyPane, pane)
  ELSE changeKeyPane(popCandidates(s).s, s.keyPane, popCandidates(s).newKeyPane)

\* makeMainPane after the key focus was changed if needed
mainPaneSet(s, currentMain, pane) ==
  Told(Told([ s EXCEPT !.mainPane = pane ], "blurMainTo", currentMain, pane),
           "focusMainFrom", pane, currentMain)

\* makeMainPane(pane)
makeMainPane(s, pane) ==
  IF s.mainPane = pane THEN s
  ELSE mainPaneSet(IF s.keyPane = s.mainPane THEN makeKeyPane(s, pane) ELSE s,
                   s.mainPane, pane)

CommitPanes(s) ==
  /\ keyPanes' = [ keyPane |-> s.keyPane, previousKeyPanes |-> s.previousKeyPanes,
                   mainPane |-> s.mainPane ]
  /\ UNCHANGED << paneFlags, rootVars, scrollVars, fanVars >>

InitPanes ==
  /\ keyPanes = [ keyPane |-> Null, previousKeyPanes |-> << >>, mainPane |-> Null ]
  /\ \E accepting \in SUBSET Panes :
       paneFlags = [ acceptsKeyPane |-> accepting, isPaneAttached |-> Panes ]
  /\ RootUnused
  /\ ScrollUnused
  /\ FanOutUnused

MakeKeyPane ==
  \E pane \in Panes \cup {Null} :
    /\ Len(makeKeyPane(PaneState, pane).previousKeyPanes) <= MaxStack
    /\ CommitPanes(makeKeyPane(PaneState, pane))

MakeMainPane ==
  \E pane \in Panes \cup {Null} :
    /\ Len(makeMainPane(PaneState, pane).previousKeyPanes) <= MaxStack
    /\ CommitPanes(makeMainPane(PaneState, pane))

\* a pane changes its mind about key focus
ToggleAcceptsKeyPane ==
  \E pane \in Panes :
    /\ paneFlags' = [ paneFlags EXCEPT !.acceptsKeyPane =
                        IF pane \in @ THEN @ \ {pane} ELSE @ \cup {pane} ]
    /\ UNCHANGED << keyPanes, rootVars, scrollVars, fanVars >>

\* a pane is appended to the document or removed from it
TogglePaneAttached ==
  \E pane \in Panes :
    /\ paneFlags' = [ paneFlags EXCEPT !.isPaneAttached =
                        IF pane \in @ THEN @ \ {pane} ELSE @ \cup {pane} ]
    /\ UNCHANGED << keyPanes, rootVars, scrollVars, fanVars >>

NextPanes ==
  \/ MakeKeyPane
  \/ MakeMainPane
  \/ ToggleAcceptsKeyPane
  \/ TogglePaneAttached

SpecPanes == InitPanes /\ [][NextPanes]_vars

\* C27: makeKeyPane with a pane that does not accept key focus moves the
\* key focus to the previous key pane, the most recently stacked one that
\* is still attached, exactly as makeKeyPane(null) does.
C27_RefusingPaneFallsBack ==
  \A pane \in Panes \ paneFlags.acceptsKeyPane :
    /\ makeKeyPane(PaneState, pane).keyPane = makeKeyPane(PaneState, Null).keyPane
    /\ makeKeyPane(PaneState, pane).previousKeyPanes
         = makeKeyPane(PaneState, Null).previousKeyPanes

\* the index in previousKeyPanes of the candidate makeKeyPane(null) takes:
\* the last that qualifies, or 0
RECURSIVE LastQualifying(_, _)
LastQualifying(s, i) ==
  IF i = 0 \/ Qualifies(s, s.previousKeyPanes[i]) THEN i ELSE LastQualifying(s, i - 1)

\* the key pane and the stack that makeKeyPane(null) is to leave
FallsBackTo(s, post, i) ==
  IF i > 0
  THEN /\ post.keyPane = s.previousKeyPanes[i]
       /\ post.previousKeyPanes = SubSeq(s.previousKeyPanes, 1, i - 1)
  ELSE /\ post.previousKeyPanes = << >>
       /\ post.keyPane = (IF s.mainPane /= Null /\ s.mainPane \in s.acceptsKeyPane
                          THEN s.mainPane ELSE Null)

\* the key pane a call leaves is the one it found, null, or a pane that
\* accepts key pane as the call is made
AcceptedWhenChosen(s, post) ==
  post.keyPane = s.keyPane \/ post.keyPane = Null \/ post.keyPane \in s.acceptsKeyPane

\* C28: makeKeyPane(null) pops the candidates from previousKeyPanes, the
\* most recent first, makes the first that is attached and accepts key
\* pane the key pane and discards those popped before it; with the stack
\* used up the main pane becomes key pane if it accepts, else none.  No
\* call of makeKeyPane or makeMainPane makes a pane key pane that does not
\* accept it at that time.
C28_FallsBackDownTheStack ==
  /\ FallsBackTo(PaneState, makeKeyPane(PaneState, Null),
                 LastQualifying(PaneState, Len(keyPanes.previousKeyPanes)))
  /\ \A pane \in Panes \cup {Null} :
       /\ AcceptedWhenChosen(PaneState, makeKeyPane(PaneState, pane))
       /\ AcceptedWhenChosen(PaneState, makeMainPane(PaneState, pane))

\* the most recent candidate does not qualify and the one below it does
C28_Witness ==
  /\ Len(keyPanes.previousKeyPanes) = 2
  /\ ~Qualifies(PaneState, keyPanes.previousKeyPanes[2])
  /\ Qualifies(PaneState, keyPanes.previousKeyPanes[1])
  /\ keyPanes.keyPane /= Null

\* ---------------------------------------------------------------------
\* Fan-out revision of the root responder: exclusive control of a touch
\* (renderer.js 1965-2004 and 2067-2091).
\*
\* touchmove reads touchEntry.views as a list of entries, each with a view;
\* when a view's touchDragged answer is YES, touchmove calls cancelTouch
\* and makes the answering entry the only one of the touch.  JavaScript
\* values of different kinds are records with different fields, so that
\* === between them is plain inequality.
\* ---------------------------------------------------------------------

\* the largest value of _touch_move_generation before the move
MaxMoves == 2

\* the longest list of subscribers of one touch
MaxSubscribers == 3

\* a number, undefined, and a view object
NumberValue(n) == [ number |-> n ]

NoValue == [ undefined |-> TRUE ]

ViewObject(v) == [ guid |-> v ]

\* an entry of touchEntry.views as touchmove reads it; nothing in the
\* revision assigns cancelledOn
ViewEntry(v) == [ view |-> ViewObject(v), cancelledOn |-> NoValue ]

\* view.tryToPerform('touchCancelled', evt)
TouchCancelled(view, evt) == [ to |-> view, action |-> "touchCancelled", evt |-> evt ]

\* cancelTouch: the messages it sends, in order
cancelTouch(views, newView, evt, generation) ==
  LET told == SelectSeq(views, LAMBDA viewEntry :
                          /\ viewEntry.cancelledOn /= generation
                          /\ viewEntry.view /= newView)
  IN [ idx \in 1 .. Len(told) |-> TouchCancelled(told[idx].view, evt) ]

\* the branch of touchmove for result === YES: cancelTouch is called with
\* three arguments, so generation arrives as evt and the fourth parameter
\* is undefined
exclusive(touchViews, touchView, generation) ==
  [ sent |-> cancelTouch(touchViews, touchView, NumberValue(generation), NoValue),
    views |-> << touchView >> ]

\* lists of entries of different views
SubscriberLists ==
  { list \in UNION { [ 1 .. n -> Views ] : n \in 1 .. MaxSubscribers } :
      \A i, j \in DOMAIN list : list[i] = list[j] => i = j }

InitExclusive ==
  /\ \E list \in SubscriberLists, idx \in 1 .. MaxSubscribers,
        generation \in 0 .. MaxMoves - 1 :
       /\ idx <= Len(list)
       /\ fanOut = [ views |-> [ i \in DOMAIN list |-> ViewEntry(list[i]) ],
                     subscribed |-> [ i \in DOMAIN list |-> ViewEntry(list[i]) ],
                     touchViewIdx |-> idx,
                     generation |-> generation,
                     answered |-> FALSE,
                     sent |-> << >> ]
  /\ RootUnused
  /\ ScrollUnused
  /\ PanesUnused

\* the view at touchViewIdx answers YES to touchDragged
AnswerYes ==
  /\ fanOut.answered = FALSE
  /\ LET generation == fanOut.generation + 1
         after == exclusive(fanOut.views, fanOut.views[fanOut.touchViewIdx], generation)
     IN fanOut' = [ fanOut EXCEPT !.generation = generation,
                                  !.answered = TRUE,
                                  !.sent = after.sent,
                                  !.views = after.views ]
  /\ UNCHANGED << rootVars, scrollVars, paneVars >>

NextExclusive == AnswerYes

SpecExclusive == InitExclusive /\ [][NextExclusive]_vars

\* the views that were sent touchCancelled
Cancelled == { fanOut.sent[i].to : i \in DOMAIN fanOut.sent }

\* the entry that answered YES
Claimant == fanOut.subscribed[fanOut.touchViewIdx]

C30_ClaimantKeepsTheTouch ==
  fanOut.answered =>
    /\ Claimant.view \notin Cancelled
    /\ fanOut.views = << Claimant >>

\* ---------------------------------------------------------------------
\* Fan-out revision of the root responder: touchstart (renderer.js
\* 1737-1811).  A touch is its identifier; the raw target view of a touch
\* and what the pane's sendTouchEvent returns for a target are inputs.
\* ---------------------------------------------------------------------

\* the most changed touches of one touchstart event
MaxBatch == 3

\* the raw target views
RawTargets == {"A", "B"}

\* what sendTouchEvent('touchStart', ...) returns: the views that took the
\* event, none or some
Responses == { << >>, << "A" >>, << "B", "A" >> }

\* the first loop of touchstart at one touch: a view not yet in
\* changedViews gets an entry and viewEntry is set to it; the touch is
\* pushed onto viewEntry, which is the entry made last
batched(changedViews, view, aTouch) ==
  IF \A i \in DOMAIN changedViews : changedViews[i].view /= view
  THEN Append(changedViews, [ view |-> view, touches |-> << aTouch >> ])
  ELSE [ changedViews EXCEPT ![Len(changedViews)].touches = Append(@, aTouch) ]

\* changedViews after the touches idx .. len of the event
RECURSIVE batchedFrom(_, _, _)
batchedFrom(changedViews, target, idx) ==
  IF idx > Len(target) THEN changedViews
  ELSE batchedFrom(batched(changedViews, target[idx], idx), target, idx + 1)

\* the second loop of touchstart from the changed view at position at: the
\* dispatch with evt.viewChangedTouches, the entry of _touchedViews, and
\* for a view that took the event hasTouch, then the push onto
\* touches[touchIdx].views of the raw touch, which has no views: the
\* exception ends the handler
RECURSIVE registered(_, _, _, _)
registered(s, changedViews, accepts, at) ==
  IF at > Len(changedViews) THEN s
  ELSE LET viewEntry == changedViews[at]
           taken == accepts[viewEntry.view]
           sent == [ s EXCEPT
                       !.dispatched = Append(@, [ view |-> viewEntry.view,
                                                  viewChangedTouches |-> viewEntry.touches ]),
                       !.touchedViews = @ \cup {viewEntry.view} ]
       IN IF taken = << >>
          THEN registered(sent, changedViews, accepts, at + 1)
          ELSE [ sent EXCEPT !.hasTouch = @ \cup {taken[1]},
                             !.thrown = TRUE ]

\* touchstart of the fan-out revision
fanOutTouchstart(s, target, accepts) ==
  registered([ s EXCEPT !.touches = @ \cup DOMAIN target,
                        !.changed = target,
                        !.dispatched = << >>,
                        !.thrown = FALSE ],
             batchedFrom(<< >>, target, 1), accepts, 1)

InitFanOut ==
  /\ fanOut = [ touches |-> {}, touchedViews |-> {}, hasTouch |-> {},
                changed |-> << >>, dispatched |-> << >>, thrown |-> FALSE ]
  /\ RootUnused
  /\ ScrollUnused
  /\ PanesUnused

FanOutTouchstart ==
  /\ \E n \in 1 .. MaxBatch :
       \E target \in [ 1 .. n -> RawTargets ], accepts \in [ RawTargets -> Responses ] :
         fanOut' = fanOutTouchstart(fanOut, target, accepts)
  /\ UNCHANGED << rootVars, scrollVars, paneVars >>

NextFanOut == FanOutTouchstart

SpecFanOut == InitFanOut /\ [][NextFanOut]_vars

\* the changed touches of the event whose raw target is view
TouchesOf(view) ==
  { idx \in DOMAIN fanOut.changed : fanOut.changed[idx] = view }

\* the dispatches of the event to view
DispatchesTo(view) ==
  { i \in DOMAIN fanOut.dispatched : fanOut.dispatched[i].view = view }

\* C31: after touchstart, each raw target view of the batch has had one
\* touchStart dispatch whose viewChangedTouches are exactly the changed
\* touches with that target, no dispatch carries a touch of another
\* target, and every changed touch has a registry entry.
C31_BatchesByTarget ==
  /\ \A idx \in DOMAIN fanOut.changed :
       /\ Cardinality(DispatchesTo(fanOut.changed[idx])) = 1
       /\ idx \in fanOut.touches
  /\ \A i \in DOMAIN fanOut.dispatched :
       Range(fanOut.dispatched[i].viewChangedTouches) = TouchesOf(fanOut.dispatched[i].view)

\* the part that holds: every changed touch has a registry entry
C31_EveryTouchRegistered ==
  \A idx \in DOMAIN fanOut.changed : idx \in fanOut.touches

\* the claim where no view takes the event and no target comes back
\* after another one; it holds
C31_GroupedTargets ==
  (/\ ~fanOut.thrown
   /\ \A i, j, k \in DOMAIN fanOut.changed :
        i < j /\ j < k /\ fanOut.changed[i] = fanOut.changed[k]
          => fanOut.changed[j] = fanOut.changed[i])
  => C31_BatchesByTarget

\* ---------------------------------------------------------------------
\* makeTouchResponder of the first revision: the order of its callbacks
\* and what it leaves in the stack and in the index.
\* ---------------------------------------------------------------------

\* the positions of the log of s at which touchCancelled is sent
Cancellations(s) == { i \in 1 .. Len(s.log) : s.log[i].action = "touchCancelled" }

\* before position i of the log a view was offered touchStart and took it
AcceptedBefore(s, i, accepts) ==
  \E j \in 1 .. i - 1 : s.log[j].action = "touchStart" /\ s.log[j].view \in accepts

\* C32: in makeTouchResponder every touchCancelled is sent after a
\* touchStart offer that a view accepted; no touchCancelled is sent for a
\* change no view accepted.
C32_AcceptedBeforeCancelled ==
  \A t \in touches, candidate \in Views, shouldStack \in BOOLEAN,
     accepts \in SUBSET Views :
    LET s == makeTouchResponder(State, t, candidate, shouldStack, accepts)
    IN \A i \in Cancellations(s) : AcceptedBefore(s, i, accepts)

\* the part that holds: when the offer is accepted, the accepted touchStart
\* comes before every touchCancelled
C32_AcceptedComesFirst ==
  \A t \in touches, candidate \in Views, shouldStack \in BOOLEAN,
     accepts \in SUBSET Views :
    ~Declined(t, candidate, accepts) =>
      LET s == makeTouchResponder(State, t, candidate, shouldStack, accepts)
      IN \A i \in Cancellations(s) : AcceptedBefore(s, i, accepts)

\* the views on the responder stack of touch t
OnStack(t) == Range(touch[t].touchResponders)

\* the views whose touch set holds t in s
HoldersOf(s, t) == { view \in Views : t \in touchesForView(s, view) }

\* C33: makeTouchResponder(touch, R, shouldStack) with R accepting and not
\* on the stack.  Stacking: the previous stack stays below R, nobody is
\* sent touchCancelled and nextTouchResponder is the previous
\* touchResponder.  Not stacking: the stack becomes [R].  Either way the
\* index holds the touch for R and for no other view.
C33_StackOrReplace ==
  \A t \in touches, R \in Views, shouldStack \in BOOLEAN, accepts \in SUBSET Views :
    R \in accepts \ OnStack(t) =>
      LET s == makeTouchResponder(State, t, R, shouldStack, accepts)
      IN /\ shouldStack =>
              /\ s.touch[t].touchResponders = Append(touch[t].touchResponders, R)
              /\ Calls(s, "touchCancelled") = << >>
              /\ s.touch[t].nextTouchResponder = touch[t].touchResponder
         /\ ~shouldStack => s.touch[t].touchResponders = << R >>
         /\ HoldersOf(s, t) = {R}
         /\ s.touch[t].view = R

\* reached: a touch with a responder, and a view off its stack that is
\* stacked above it by one call and replaces it by another
C33_Witness ==
  \E t \in touches, R \in Views :
    /\ R \notin OnStack(t)
    /\ Len(touch[t].touchResponders) >= 1
    /\ Len(makeTouchResponder(State, t, R, TRUE, {R}).touch[t].touchResponders) >= 2
    /\ makeTouchResponder(State, t, R, FALSE, {R}).touch[t].touchResponders = << R >>

\* the registered touch entries of s that refer to the raw event
HoldingEvent(s) == { t \in s.touches : s.data.event[t] = "evt" }

\* C34: after touchmove returns, no registered touch entry refers to the
\* raw event, whatever the number of changed touches; likewise after
\* touchstart.
C34_EventReferenceIsTransient ==
  /\ \A ids \in Batches(touches) : HoldingEvent(touchmove(State, ids)) = {}
  /\ \A ids \in Batches(TouchIds \ (touches \cup StaleIds)) :
       \A captures \in SUBSET Views, accepts \in SUBSET Views :
         HoldingEvent(touchstart(State, [ i \in 1 .. Len(ids) |-> RawTouch(ids[i], "Leaf") ],
                                 captures, accepts)) = {}

\* the parts that hold: touchmove of one touch whose responder has it in
\* its touch set, and touchstart, which sets the event on the raw touch and
\* not on the entry
C34_SingleTouchIsCleared ==
  /\ \A t \in touches :
       touchesForView(State, touch[t].touchResponder) /= {}
         => HoldingEvent(touchmove(State, << t >>)) = {}
  /\ \A ids \in Batches(TouchIds \ (touches \cup StaleIds)) :
       \A captures \in SUBSET Views, accepts \in SUBSET Views :
         HoldingEvent(touchstart(State, [ i \in 1 .. Len(ids) |-> RawTouch(ids[i], "Leaf") ],
                                 captures, accepts)) = {}

\* every registered touch of s whose touchResponder is set is in the touch
\* set of that view
ResponderHoldsTouch(s) ==
  \A t \in s.touches :
    Truthy(s.touch[t].touchResponder)
      => t \in touchesForView(s, s.touch[t].touchResponder)

\* C35: every registered touch whose touchResponder is set is in the touch
\* set of that view, and touchstart, makeTouchResponder, captureTouch and
\* touchmove keep it so, whether the offer is accepted or declined,
\* stacking or not.
C35_ResponderHoldsTouch ==
  ResponderHoldsTouch(State) =>
    /\ \A t \in touches, candidate \in Views, shouldStack \in BOOLEAN,
          accepts \in SUBSET Views :
         /\ ResponderHoldsTouch(makeTouchResponder(State, t, candidate, shouldStack,
                                                    accepts))
         /\ \A captures \in SUBSET Views :
              ResponderHoldsTouch(captureTouch(State, t, candidate, shouldStack,
                                               captures, accepts))
    /\ \A ids \in Batches(touches) : ResponderHoldsTouch(touchmove(State, ids))
    /\ \A ids \in Batches(TouchIds \ (touches \cup StaleIds)) :
         \A captures \in SUBSET Views, accepts \in SUBSET Views :
           ResponderHoldsTouch(touchstart(State,
                                          [ i \in 1 .. Len(ids) |-> RawTouch(ids[i], "Leaf") ],
                                          captures, accepts))

\* the part that holds: a makeTouchResponder call whose offer is accepted
\* keeps the touch in the touch set of its responder
C35_AcceptedResponderHoldsTouch ==
  \A t \in touches, candidate \in Views, shouldStack \in BOOLEAN,
     accepts \in SUBSET Views :
    (ResponderHoldsTouch(State) /\ ~Declined(t, candidate, accepts)) =>
      ResponderHoldsTouch(makeTouchResponder(State, t, candidate, shouldStack, accepts))

\* the views whose touch set holds t
Holders(t) == HoldersOf(State, t)

\* C36: every touch is in the touch set of at most one view, a view whose
\* set holds it is the touch's recorded view, and the touchCount of every
\* entry of the index is the size of its touch set.
C36_SingleOwnership ==
  /\ \A t \in TouchIds :
       /\ Cardinality(Holders(t)) <= 1
       /\ \A view \in Holders(t) : touch[t].view = view
  /\ \A view \in DOMAIN touchedViews :
       touchedViews[view].touchCount = Cardinality(touchedViews[view].touches)

\* reached: one view holds two touches in its touch set, each recorded for
\* that view only
C36_Witness ==
  \E view \in DOMAIN touchedViews :
    /\ Cardinality(touchedViews[view].touches) = 2
    /\ \A t \in touchedViews[view].touches : touch[t].view = view /\ Holders(t) = {view}

\* ---------------------------------------------------------------------
\* The deceleration timers of the scroll view and the delayed capture.
\* ---------------------------------------------------------------------

\* C37: at most one deceleration tick of the scroll view is pending at any
\* time.
C37_OneTickPending == Cardinality(Pending(ScrollState)) <= 1

\* C38: while the gesture state this.touch is null no deceleration tick is
\* pending, so none can run without it; in particular none is left after
\* touchCancelled.
C38_NoTickWithoutGesture ==
  scrollView.touch = NoGesture => Pending(ScrollState) = {}

\* the state in which the delayed call of generation gen runs
WhenDue(gen) == [ ScrollState EXCEPT !.timeouts.later = @ \ {gen} ]

\* the delayed call of generation gen, run now
Due(gen, outcome) ==
  beginTouchesInContent(WhenDue(gen), gen,
                        IF scrollView.touch = NoGesture THEN StartY
                        ELSE fingers[scrollView.touch.touch].pageY,
                        outcome)

\* no touchStart has followed the one of generation gen, and its touch is
\* still down with the scroll view as responder, tracked and not dragged
StillTracked(gen) ==
  /\ gen = scrollView.touchGeneration
  /\ scrollView.touch /= NoGesture
  /\ scrollView.touch.touch \in DOMAIN fingers
  /\ fingers[scrollView.touch.touch].state = Down
  /\ scrollView.touch.tracking
  /\ ~scrollView.touch.dragging

\* C39: the delayed call of a touchStart captures the touch again, with
\* stacking, only if no later touchStart has occurred and the gesture is
\* still tracking and not dragging; the call of a superseded, dragged,
\* ended or cancelled gesture does nothing.
C39_DelayedCaptureOnlyWhileTracked ==
  \A gen \in timeouts.later, outcome \in {Kept, Taken} :
    IF Due(gen, outcome).calls /= << >>
    THEN /\ StillTracked(gen)
         /\ Recaptures(Due(gen, outcome), scrollView.touch.touch)
    ELSE Due(gen, outcome) = WhenDue(gen)

\* reached: two calls wait, the one of the last touchStart captures the
\* touch and the superseded one does nothing
C39_Witness ==
  \E gen, old \in timeouts.later :
    /\ old < gen
    /\ Due(gen, Taken).calls /= << >>
    /\ Due(old, Taken) = WhenDue(old)

====
